---- MODULE Spec2Model ----
(***************************************************************************)
(* Model of the HTTP transport of poly-go-clob-client: Transport.DoJSON,   *)
(* the retry loop doJSONWithRetry, the body replay helpers, the response   *)
(* body cap of Transport.Do and the typed errors the loop returns; the     *)
(* steps of Transport.Do under a rate limiter, a caller context and the    *)
(* request timeout; the delay sleepBackoff computes; the error taxonomy    *)
(* and Classify of package types; Redact and RedactHeaders of package      *)
(* redaction; APICreds of package auth; and NewPublicClient of package     *)
(* clob.                                                                   *)
(***************************************************************************)
EXTENDS Integers, Sequences, FiniteSets, TLC

VARIABLES
    policy,     \* Transport.policy: the Retry.MaxRetries and MaxBodyBytes fields
    pc,         \* position of the DoJSON call
    req,        \* the *http.Request of the call
    arg,        \* the body argument DoJSON was called with
    attempts,   \* doJSONWithRetry's local counter
    log,        \* outcome of every Transport.Do invocation, in order
    sent,       \* payload of every request the server answered, in order
    doErr,      \* err of the latest Transport.Do
    resp,       \* resp of the latest Transport.Do
    intact,     \* every response body so far was read in full and within the cap
    result,     \* what DoJSON returned
    rd,         \* the body of a response Transport.Do returned to a direct caller
    do,         \* the latest Transport.Do: its sub-context, and the bodies open
    ctx,        \* the caller's context
    lim,        \* Transport.policy.RateLimiter
    callers,    \* goroutines calling Transport.Do on one Transport
    bk,         \* a sleepBackoff call: its arguments and the delay it waits for
    fn          \* a call of a function of the packages types, redaction or
                \* clob: its arguments and what it returned

call == <<req, arg, attempts, log, sent, doErr, resp, intact, result>>
env == <<ctx, lim, callers, bk, fn>>
vars == <<policy, pc, call, rd, do, env>>

-----------------------------------------------------------------------------
(* Bounds of the model *)

MaxRetriesBound == 2
MaxCap == 1
MaxRespLen == 2
MaxSrcLen == 3
MaxReqLen == 2
MaxBuf == 2
\* Close calls a direct caller makes on one body
MaxCloses == 2
\* burst of the rate limiter
MaxBurst == 2
\* goroutines sharing one Transport, and the Transport.Do calls each makes
NumCallers == 2
MaxCalls == 2
\* width of the two's complement integer that stands for time.Duration (an
\* int64 of nanoseconds in the program)
DurationBits == 28
\* the RetryPolicy delays tried, in nanoseconds
MaxBaseDelay == 3
MaxMaxDelay == 7

\* how far around MaxRawBodyBytes the lengths of the long response bodies go
\* how many Errors are nested in an error chain
MaxDepth == 3

PreviewSlack == 1

\* how far below zero the MaxBodyBytes of a Transport goes
NegCaps == 2

\* the largest status code Classify is called with
MaxStatus == 600

\* the strings redacted: every string of up to MaxShort characters over a
\* small alphabet, and up to MaxCore letters between blanks
MaxShort == 4
MaxCore == 17

\* the values one header key holds
MaxValues == 2

(* Program constants *)

MaxRawBodyBytes == 4096
\* 50 * time.Millisecond, in nanoseconds
DefaultBackoff == 50000000

-----------------------------------------------------------------------------
(* Values *)

Methods == {"GET", "HEAD", "OPTIONS", "PUT", "DELETE", "POST", "PATCH"}
Paths == {"/x", "/retry"}

\* The first n bytes of a payload whose i-th byte is i.
Bytes(n) == [i \in 1..n |-> i]

\* A []byte argument: nil, or a slice.  An empty slice is sent like nil.
NilBytes == [present |-> FALSE, bytes |-> <<>>]
Slice(b) == [present |-> TRUE, bytes |-> b]
BodyArgs == {NilBytes} \cup {Slice(Bytes(n)) : n \in 1..MaxReqLen}

RespBodies == {Bytes(n) : n \in 0..MaxRespLen}

\* Status codes a server answers with; Fail marks a Transport.Do that
\* returned an error instead of a response.
Statuses == {200, 299, 300, 404, 429, 500, 599, 600}
Fail == 0
Causes == {"context canceled", "connection refused"}

\* The requests and the answers of the step-by-step specifications.
BareMethods == {"GET", "POST"}
BarePaths == {"/x"}
BareStatuses == {200, 404, 500}

Min(a, b) == IF a < b THEN a ELSE b
Max(a, b) == IF a > b THEN a ELSE b

-----------------------------------------------------------------------------
(* types: the error taxonomy *)

KindStatus == "status"
KindValidation == "validation"
KindSynchronization == "synchronization"
KindInternal == "internal"
KindWebSocket == "websocket"
KindGeoblock == "geoblock"
Kinds == {KindStatus, KindValidation, KindSynchronization, KindInternal,
          KindWebSocket, KindGeoblock}

NoErr == [kind |-> "", src |-> [type |-> "nil"]]
IsErr(e) == e # NoErr

\* errors.New(text)
ErrorsNew(text) == [type |-> "errorString", text |-> text]

ErrBodyTooLarge == ErrorsNew("response body too large")

NoCause == [type |-> "nil"]

\* An error value that is not a *types.Error: it has no kind.
Plain(src) == [kind |-> "", src |-> src]

WithSource(kind, src) == [kind |-> kind, src |-> src]

\* StatusErr with the method and the path swapped.
StatusErr_Swapped(statusCode, method, path, message) ==
    WithSource(KindStatus,
               [type |-> "Status", StatusCode |-> statusCode, Method |-> path,
                Path |-> method, Message |-> message])

\* StatusErr with the status of the call's first attempt.
StatusErr_FirstAttempt(statusCode, method, path, message) ==
    WithSource(KindStatus,
               [type |-> "Status",
                StatusCode |-> IF Len(log) > 0 THEN log[1] ELSE statusCode,
                Method |-> method, Path |-> path, Message |-> message])

StatusErr(statusCode, method, path, message) ==
    WithSource(KindStatus,
               [type |-> "Status", StatusCode |-> statusCode, Method |-> method,
                Path |-> path, Message |-> message])

\* GeoblockErr with the ip and the country swapped.
GeoblockErr_Swapped(ip, country, region) ==
    WithSource(KindGeoblock,
               [type |-> "Geoblock", IP |-> country, Country |-> ip, Region |-> region])

ValidationErr(reason) ==
    WithSource(KindValidation, [type |-> "Validation", Reason |-> reason])

SyncErr == WithSource(KindSynchronization, [type |-> "Synchronization"])

MissingContractConfigErr(chainID, negRisk) ==
    WithSource(KindInternal,
               [type |-> "MissingContractConfig", ChainID |-> chainID,
                NegRisk |-> negRisk])

GeoblockErr(ip, country, region) ==
    WithSource(KindGeoblock,
               [type |-> "Geoblock", IP |-> ip, Country |-> country, Region |-> region])

\* A value is a *types.Error: it has a kind.
IsError(e) == "kind" \in DOMAIN e

\* errors.As that looks at err and at what err wraps, and no further.
errorsAs_TwoLevels(err, type) ==
    IF IsError(err)
    THEN IF type = "Error" THEN [ok |-> TRUE, val |-> err]
         ELSE IF ~IsError(err.src) /\ err.src.type = type
         THEN [ok |-> TRUE, val |-> err.src]
         ELSE [ok |-> FALSE, val |-> NoCause]
    ELSE IF err.type = type THEN [ok |-> TRUE, val |-> err]
    ELSE [ok |-> FALSE, val |-> NoCause]

\* errors.As(err, &target) for a target of the given type: the first value of
\* that type in the chain of err, an Error unwrapping to its src.
RECURSIVE errorsAs(_, _)
errorsAs(err, type) ==
    IF IsError(err)
    THEN IF type = "Error" THEN [ok |-> TRUE, val |-> err]
         ELSE errorsAs(err.src, type)
    ELSE IF err.type = type THEN [ok |-> TRUE, val |-> err]
    ELSE [ok |-> FALSE, val |-> NoCause]

AsStatus(err) == errorsAs(err, "Status")
AsValidation(err) == errorsAs(err, "Validation")

-----------------------------------------------------------------------------
(* types: Classify and its sentinel errors *)

ErrRateLimited == ErrorsNew("rate limited")
ErrUnauthorized == ErrorsNew("unauthorized")
ErrBadRequest == ErrorsNew("bad request")
ErrServer == ErrorsNew("server error")
ErrUnknown == ErrorsNew("unknown error")
Sentinels == {ErrRateLimited, ErrUnauthorized, ErrBadRequest, ErrServer, ErrUnknown}

\* A response body as json.Unmarshal into a map[string]interface{} sees it:
\* not an object (the map stays nil), or an object whose "message", "error"
\* and "code" entries are absent, a string, or a number.
Absent == [type |-> "absent", val |-> ""]
JSONString(s) == [type |-> "string", val |-> s]
JSONNumber == [type |-> "number", val |-> ""]
NotJSON == [object |-> FALSE, message |-> Absent, error |-> Absent, code |-> Absent]
ClassifyBodies ==
    {NotJSON} \cup
    [object : {TRUE},
     message : {Absent, JSONString(""), JSONString("m"), JSONNumber},
     error : {Absent, JSONString(""), JSONString("e"), JSONNumber},
     code : {Absent, JSONString("c"), JSONNumber}]

\* v, ok := parsed[key].(string): v when ok, "" otherwise.
asString(v) == IF v.type = "string" THEN v.val ELSE ""

\* The switch of Classify without its case for 401 and 403.
sentinelFor_NoUnauthorized(status) ==
    IF status = 429 THEN ErrRateLimited
    ELSE IF status >= 400 /\ status < 500 THEN ErrBadRequest
    ELSE IF status >= 500 THEN ErrServer
    ELSE ErrUnknown

\* The switch of Classify.
sentinelFor(status) ==
    IF status = 429 THEN ErrRateLimited
    ELSE IF status = 401 \/ status = 403 THEN ErrUnauthorized
    ELSE IF status >= 400 /\ status < 500 THEN ErrBadRequest
    ELSE IF status >= 500 THEN ErrServer
    ELSE ErrUnknown

\* Classify taking its message from "error" before "message".
Classify_ErrorFirst(status, body) ==
    IF status >= 200 /\ status < 300 THEN NoCause
    ELSE LET err == asString(body.error)
             message == IF err = "" THEN asString(body.message) ELSE err
         IN  [type |-> "APIError", Status |-> status, Code |-> asString(body.code),
              Message |-> message, RawBody |-> body, wrapped |-> sentinelFor(status)]

Classify(status, body) ==
    IF status >= 200 /\ status < 300 THEN NoCause
    ELSE LET msg == asString(body.message)
             message == IF msg = "" THEN asString(body.error) ELSE msg
         IN  [type |-> "APIError", Status |-> status, Code |-> asString(body.code),
              Message |-> message, RawBody |-> body, wrapped |-> sentinelFor(status)]

\* errors.Is(err, target) for the errors of this model: err itself, or what
\* an APIError unwraps to.
Is(err, target) ==
    \/ err = target
    \/ err.type = "APIError" /\ err.wrapped = target

-----------------------------------------------------------------------------
(* redaction: Redact *)

DefaultRedaction_Long == "*****"
DefaultRedaction == "***"

\* The characters strings.TrimSpace removes, of those the inputs hold.
Whitespace == {" ", "\t"}

At(s, i) == SubSeq(s, i, i)

RECURSIVE TrimLeft(_)
TrimLeft(s) ==
    IF Len(s) > 0 /\ At(s, 1) \in Whitespace
    THEN TrimLeft(SubSeq(s, 2, Len(s)))
    ELSE s

RECURSIVE TrimRight(_)
TrimRight(s) ==
    IF Len(s) > 0 /\ At(s, Len(s)) \in Whitespace
    THEN TrimRight(SubSeq(s, 1, Len(s) - 1))
    ELSE s

\* strings.TrimSpace, and a trim of the left end only.
TrimSpace_Left(s) == TrimLeft(s)
TrimSpace(s) == TrimRight(TrimLeft(s))

Redact(s) ==
    LET t == TrimSpace(s)
    IN  IF t = "" THEN ""
        ELSE IF Len(t) <= 8 THEN DefaultRedaction
        ELSE SubSeq(t, 1, 3) \o DefaultRedaction \o SubSeq(t, Len(t) - 2, Len(t))

-----------------------------------------------------------------------------
(* redaction: RedactHeaders *)

LowerAlpha == "abcdefghijklmnopqrstuvwxyz"
UpperAlpha == "ABCDEFGHIJKLMNOPQRSTUVWXYZ"

\* The map that takes every letter of alphabet from to the letter of
\* alphabet to at the same place.
LetterMap(from, to) ==
    [c \in {At(from, i) : i \in 1..Len(from)} |->
        At(to, CHOOSE i \in 1..Len(from) : At(from, i) = c)]
LowerOf == LetterMap(UpperAlpha, LowerAlpha)
UpperOf == LetterMap(LowerAlpha, UpperAlpha)

\* c under the map; c itself when the map does not hold it.
Swap(c, map) == IF c \in DOMAIN map THEN map[c] ELSE c

RECURSIVE ToLower(_)
ToLower(s) ==
    IF s = "" THEN ""
    ELSE Swap(At(s, 1), LowerOf) \o ToLower(SubSeq(s, 2, Len(s)))

HasPrefix(s, prefix) == Len(s) >= Len(prefix) /\ SubSeq(s, 1, Len(prefix)) = prefix

Contains(s, sub) ==
    \E i \in 1..(Len(s) - Len(sub) + 1) : SubSeq(s, i, i + Len(sub) - 1) = sub

\* The bytes http.CanonicalHeaderKey accepts in a key, of those the inputs
\* hold: letters and "-".  A key with another byte is returned as it is.
HeaderFieldBytes == {"-"} \cup DOMAIN LowerOf \cup DOMAIN UpperOf
ValidHeaderFieldByte(c) == c \in HeaderFieldBytes

\* The key from its i-th byte on, in canonical form: upper is whether that
\* byte starts a word.
RECURSIVE canonicalFrom(_, _, _)
canonicalFrom(k, i, upper) ==
    IF i > Len(k) THEN ""
    ELSE LET c == At(k, i)
         IN  (IF upper THEN Swap(c, UpperOf) ELSE Swap(c, LowerOf))
             \o canonicalFrom(k, i + 1, c = "-")

CanonicalHeaderKey(k) ==
    IF \A i \in 1..Len(k) : ValidHeaderFieldByte(At(k, i))
    THEN canonicalFrom(k, 1, TRUE)
    ELSE k

SensitiveNames ==
    {"Authorization", "Proxy-Authorization", "Cookie", "Set-Cookie", "X-Api-Key",
     "Api-Key", "X-Api-Token", "X-Auth-Token", "X-Access-Token", "Poly-Api-Key",
     "Poly-Api-Secret", "Poly-Api-Passphrase"}
SensitiveWords == {"secret", "token", "pass", "key", "session"}

isSensitiveHeaderName(canonicalKey) ==
    \/ canonicalKey \in SensitiveNames
    \/ \E w \in SensitiveWords : Contains(ToLower(canonicalKey), w)

redactHeaderValueHeuristic(v) ==
    LET t == TrimSpace(v)
    IN  IF t = "" THEN ""
        ELSE IF HasPrefix(ToLower(t), "bearer ") THEN "Bearer " \o DefaultRedaction
        ELSE IF Len(t) >= 16 THEN Redact(t)
        ELSE t

\* An http.Header: nil, or a map from keys to value slices.  A slice is an
\* address of the heap, which holds the values: two headers share a value
\* list when they hold the same address.
NilHeader == [nil |-> TRUE, m |-> <<>>]
Header(m) == [nil |-> FALSE, m |-> m]
Keys(h) == DOMAIN h.m

\* What a header holds: the value list of every key.
Content(h, heap) == [k \in Keys(h) |-> heap[h.m[k]]]

\* A slice that holds copied: the slice from itself when it holds the same
\* values already, and a new slice.
NewAddr(heap) == Cardinality(DOMAIN heap) + 1
copySlice_Alias(heap, from, copied) ==
    IF heap[from] = copied
    THEN [addr |-> from, heap |-> heap]
    ELSE [addr |-> NewAddr(heap), heap |-> heap @@ (NewAddr(heap) :> copied)]

\* copied := make([]string, 0, len(vv)), filled by the appends.
copySlice(heap, from, copied) ==
    [addr |-> NewAddr(heap), heap |-> heap @@ (NewAddr(heap) :> copied)]

\* The loop of RedactHeaders over the keys of h, visited in the given order,
\* from the i-th key on.
RECURSIVE redactLoop(_, _, _, _, _)
redactLoop(h, order, i, out, heap) ==
    IF i > Len(order) THEN [out |-> Header(out), heap |-> heap]
    ELSE LET k == order[i]
             ck == CanonicalHeaderKey(k)
             vv == heap[h.m[k]]
             copied ==
                 IF isSensitiveHeaderName(ck)
                 THEN [j \in 1..Len(vv) |-> DefaultRedaction]
                 ELSE [j \in 1..Len(vv) |-> redactHeaderValueHeuristic(vv[j])]
             c == copySlice(heap, h.m[k], copied)
         IN  redactLoop(h, order, i + 1,
                        [x \in DOMAIN out \cup {ck} |->
                            IF x = ck THEN c.addr ELSE out[x]],
                        c.heap)

\* RedactHeaders(h) when the range over the map visits its keys in order.
RedactHeaders(h, order, heap) ==
    IF h.nil THEN [out |-> NilHeader, heap |-> heap]
    ELSE redactLoop(h, order, 1, <<>>, heap)

-----------------------------------------------------------------------------
(* types: the messages of the errors *)

\* The %d of fmt for an int.
RECURSIVE Itoa(_)
Itoa(n) ==
    IF n < 0 THEN "-" \o Itoa(0 - n)
    ELSE IF n < 10 THEN SubSeq("0123456789", n + 1, n + 1)
    ELSE Itoa(n \div 10) \o Itoa(n % 10)

\* err.Error() for an Error, for the detail types and for errors.New values.
RECURSIVE Error(_)
Error(e) ==
    IF IsError(e)
    THEN IF e.src # NoCause THEN e.kind \o ": " \o Error(e.src) ELSE e.kind
    ELSE CASE e.type = "Status" ->
                "error(" \o Itoa(e.StatusCode) \o ") making "
                \o (IF e.Method = "" THEN "UNKNOWN" ELSE e.Method)
                \o " call to " \o e.Path \o " with "
                \o (IF TrimSpace(e.Message) = "" THEN "unknown error"
                    ELSE TrimSpace(e.Message))
           [] e.type = "Validation" -> "invalid: " \o TrimSpace(e.Reason)
           [] e.type = "Synchronization" ->
                "synchronization error: multiple goroutines are attempting to log in or log out"
           [] e.type = "MissingContractConfig" ->
                "missing contract config for chain id " \o Itoa(e.ChainID)
                \o " with neg_risk = " \o (IF e.NegRisk THEN "true" ELSE "false")
           [] e.type = "Geoblock" ->
                "access blocked from country: " \o e.Country \o ", region: "
                \o e.Region \o ", ip: " \o e.IP
           [] e.type = "errorString" -> e.text

-----------------------------------------------------------------------------
(* auth: APICreds *)

\* strconv.Quote, the %q of fmt, for a text of printable ASCII bytes.
RECURSIVE quoteFrom(_, _)
quoteFrom(s, i) ==
    IF i > Len(s) THEN ""
    ELSE (IF SubSeq(s, i, i) \in {"\"", "\\"} THEN "\\" ELSE "")
         \o SubSeq(s, i, i) \o quoteFrom(s, i + 1)
Quote(s) == "\"" \o quoteFrom(s, 1) \o "\""

APICreds(key, secret, passphrase) ==
    [Key |-> key, Secret |-> secret, Passphrase |-> passphrase]

APICredsRedacted(c) == APICreds(Redact(c.Key), Redact(c.Secret), Redact(c.Passphrase))

APICredsString(c) ==
    LET r == APICredsRedacted(c)
    IN  "APICreds{Key=" \o Quote(r.Key) \o " Secret=" \o Quote(r.Secret)
        \o " Passphrase=" \o Quote(r.Passphrase) \o "}"

-----------------------------------------------------------------------------
(* clob: NewPublicClient and validateBaseURL *)

\* strings.Index, and the two halves of strings.Cut.
IndexOf(s, c) ==
    IF \E i \in 1..Len(s) : At(s, i) = c
    THEN CHOOSE i \in 1..Len(s) :
            At(s, i) = c /\ \A j \in 1..(i - 1) : At(s, j) # c
    ELSE 0
Before(s, c) == IF IndexOf(s, c) = 0 THEN s ELSE SubSeq(s, 1, IndexOf(s, c) - 1)
After(s, c) == IF IndexOf(s, c) = 0 THEN "" ELSE SubSeq(s, IndexOf(s, c) + 1, Len(s))

Letter(c) == c \in DOMAIN LowerOf \/ c \in DOMAIN UpperOf
SchemeMark(c) == c \in {"0", "1", "2", "3", "4", "5", "6", "7", "8", "9", "+", "-", "."}

\* getScheme of net/url from the i-th byte on.
RECURSIVE getScheme(_, _)
getScheme(rawURL, i) ==
    IF i > Len(rawURL) THEN [scheme |-> "", rest |-> rawURL, err |-> NoCause]
    ELSE LET c == At(rawURL, i)
         IN  IF Letter(c) \/ (SchemeMark(c) /\ i > 1) THEN getScheme(rawURL, i + 1)
             ELSE IF c = ":" /\ i = 1
             THEN [scheme |-> "", rest |-> "", err |-> ErrorsNew("missing protocol scheme")]
             ELSE IF c = ":"
             THEN [scheme |-> SubSeq(rawURL, 1, i - 1),
                   rest |-> SubSeq(rawURL, i + 1, Len(rawURL)), err |-> NoCause]
             ELSE [scheme |-> "", rest |-> rawURL, err |-> NoCause]

NoURL == [Scheme |-> "", Opaque |-> "", Host |-> "", Path |-> "",
          RawQuery |-> "", Fragment |-> ""]

\* url.Parse for a text without control bytes, user information and port:
\* the URL, or the error.
Parse(rawURL) ==
    LET text == Before(rawURL, "#")
        frag == After(rawURL, "#")
        s == getScheme(text, 1)
        rest == Before(s.rest, "?")
        u == [NoURL EXCEPT !.Scheme = ToLower(s.scheme), !.RawQuery = After(s.rest, "?"),
                           !.Fragment = frag]
        authority == Before(SubSeq(rest, 3, Len(rest)), "/")
    IN  IF s.err # NoCause THEN [u |-> NoURL, err |-> s.err]
        ELSE IF ~HasPrefix(rest, "/") /\ u.Scheme # ""
        THEN [u |-> [u EXCEPT !.Opaque = rest], err |-> NoCause]
        ELSE IF ~HasPrefix(rest, "/") /\ Contains(Before(rest, "/"), ":")
        THEN [u |-> NoURL,
              err |-> ErrorsNew("first path segment in URL cannot contain colon")]
        ELSE IF HasPrefix(rest, "//") /\ (u.Scheme # "" \/ ~HasPrefix(rest, "///"))
        THEN IF Contains(authority, " ")
             THEN [u |-> NoURL, err |-> ErrorsNew("invalid character in host name")]
             ELSE [u |-> [u EXCEPT !.Host = authority,
                                   !.Path = SubSeq(rest, 3 + Len(authority), Len(rest))],
                   err |-> NoCause]
        ELSE [u |-> [u EXCEPT !.Path = rest], err |-> NoCause]

\* The test of validateBaseURL for a missing scheme or host, and the test of
\* the scheme alone.
missingSchemeOrHost_SchemeOnly(u) == u.Scheme = ""
missingSchemeOrHost(u) == u.Scheme = "" \/ u.Host = ""

validateBaseURL(baseURL, requireHTTPS) ==
    LET trimmed == TrimSpace(baseURL)
        p == Parse(trimmed)
    IN  IF trimmed = ""
        THEN [u |-> NoURL, err |-> ValidationErr("baseURL must be non-empty")]
        ELSE IF p.err # NoCause
        THEN [u |-> NoURL, err |-> WithSource(KindValidation, p.err)]
        ELSE IF missingSchemeOrHost(p.u)
        THEN [u |-> NoURL, err |-> ValidationErr("baseURL must include scheme and host (e.g., https://example.com)")]
        ELSE IF requireHTTPS /\ ToLower(p.u.Scheme) # "https"
        THEN [u |-> NoURL, err |-> ValidationErr("baseURL must use https scheme")]
        ELSE [u |-> [p.u EXCEPT !.Path = IF @ = "/" THEN "" ELSE @,
                                !.RawQuery = "", !.Fragment = ""],
              err |-> NoErr]

\* NewPublicClient(baseURL, WithRequireHTTPS(requireHTTPS)): the client, or
\* no client and the error.
NoClient == [nil |-> TRUE, baseURL |-> NoURL, requireHTTPS |-> FALSE]
NewPublicClient(baseURL, requireHTTPS) ==
    LET v == validateBaseURL(baseURL, requireHTTPS)
    IN  IF v.err # NoErr THEN [client |-> NoClient, err |-> v.err]
        ELSE [client |-> [nil |-> FALSE, baseURL |-> v.u, requireHTTPS |-> requireHTTPS],
              err |-> NoErr]

-----------------------------------------------------------------------------
(* transport: retry policy helpers *)

\* Variants of the helpers below, each with one slip.
isIdempotent_SafeOnly(method) == method \in {"GET", "HEAD", "OPTIONS"}
isIdempotent_WithPost(method) ==
    method \in {"GET", "HEAD", "OPTIONS", "PUT", "DELETE", "POST"}
shouldRetryStatus_No599(status) == status = 429 \/ status >= 500
transportTerminal_OwnCounter(method, n) ==
    \/ method \notin {"GET", "HEAD", "OPTIONS", "PUT", "DELETE"}
    \/ Cardinality({i \in 1..Len(log) : log[i] = Fail}) >= policy.MaxRetries
transportTerminal_OffByOne(method, n) ==
    method \notin {"GET", "HEAD", "OPTIONS", "PUT", "DELETE"} \/ n > policy.MaxRetries
statusTerminal_OffByOne(method, n, status) ==
    \/ method \notin {"GET", "HEAD", "OPTIONS", "PUT", "DELETE"}
    \/ n > policy.MaxRetries
    \/ ~(status = 429 \/ (status >= 500 /\ status <= 599))
resetBody_Noop(r) == r

isIdempotent(method) == method \in {"GET", "HEAD", "OPTIONS", "PUT", "DELETE"}

shouldRetryStatus(status) == status = 429 \/ (status >= 500 /\ status <= 599)

\* The exits of doJSONWithRetry's loop.
transportTerminal(method, n) ==
    ~isIdempotent(method) \/ n >= policy.MaxRetries

bodyTooLarge(b) ==
    policy.MaxBodyBytes > 0 /\ Len(b) > policy.MaxBodyBytes

is2xx(status) == status >= 200 /\ status <= 299

statusTerminal(method, n, status) ==
    ~isIdempotent(method) \/ n >= policy.MaxRetries \/ ~shouldRetryStatus(status)

bodyPreview(b) ==
    IF Len(b) > MaxRawBodyBytes THEN SubSeq(b, 1, MaxRawBodyBytes) ELSE b

\* A request body reader: the bytes not yet read from it.  hasBody is false
\* for a nil req.Body; hasGetBody is false for a nil req.GetBody, and
\* snapshot is what GetBody reproduces.
NewRequest(method, path, body) ==
    [Method |-> method, Path |-> path,
     hasBody |-> body.present, Body |-> body.bytes,
     hasGetBody |-> body.present, snapshot |-> body.bytes,
     ContentLength |-> Len(body.bytes)]

ensureReplayableBody(r) ==
    IF ~r.hasBody THEN r
    ELSE IF r.hasGetBody THEN r
    ELSE [r EXCEPT !.hasGetBody = TRUE, !.snapshot = r.Body,
                   !.Body = r.Body, !.ContentLength = Len(r.Body)]

resetBody(r) ==
    IF ~r.hasGetBody THEN r
    ELSE [r EXCEPT !.hasBody = TRUE, !.Body = r.snapshot]

\* What the HTTP client transmits for r, and r once its body has been read.
Payload(r) == IF r.hasBody THEN r.Body ELSE <<>>
Consumed(r) == [r EXCEPT !.Body = <<>>]

-----------------------------------------------------------------------------
(* transport: the response body as Transport.Do returns it *)

\* The limit Transport.Do puts on the body, and the limit without its +1.
bodyLimit_NoPlusOne == policy.MaxBodyBytes
bodyLimit == policy.MaxBodyBytes + 1

\* What io.ReadAll returns from io.LimitReader(body, n) when no read fails.
LimitReader(body, n) == SubSeq(body, 1, Min(Len(body), Max(n, 0)))

ReadAll(r) == LimitReader(r.Body, bodyLimit)

\* bodyWrapper: src is what the server sends, off how much of it the wrapped
\* body has handed out, N what the limiting reader still allows, got what the
\* caller has read, eof whether a Read returned io.EOF, failed whether a Read
\* returned another error.
NoReader == [src |-> <<>>, off |-> 0, N |-> 0, got |-> <<>>,
             eof |-> FALSE, failed |-> FALSE, closed |-> FALSE]
bodyWrapper(src) == [NoReader EXCEPT !.src = src, !.N = bodyLimit]

NoResp == [StatusCode |-> 0, Body |-> <<>>, readErr |-> FALSE]

\* The server sent more than the policy allows.
Oversize(r) == Len(r.Body) > policy.MaxBodyBytes

-----------------------------------------------------------------------------
(* transport: the delay of sleepBackoff *)

\* The value a time.Duration holds after an operation whose exact result is
\* x: x wrapped to a two's complement integer of DurationBits bits.
Duration(x) ==
    LET m == 2^DurationBits
        h == 2^(DurationBits - 1)
    IN  ((x + h) % m) - h

\* The for loop of sleepBackoff from iteration i on.
RECURSIVE doubling(_, _, _, _)
doubling(delay, maxDelay, i, attempt) ==
    IF i >= attempt THEN delay
    ELSE IF maxDelay > 0 /\ delay >= maxDelay \div 2 THEN maxDelay
    ELSE doubling(Duration(delay * 2), maxDelay, i + 1, attempt)

\* The delay sleepBackoff(ctx, p, attempt) sets its timer to.
backoffDelay(p, attempt) ==
    LET n == IF attempt <= 0 THEN 1 ELSE attempt
        base == IF p.BaseDelay <= 0 THEN DefaultBackoff ELSE p.BaseDelay
        first == IF p.MaxDelay > 0 /\ base > p.MaxDelay THEN p.MaxDelay ELSE base
        last == doubling(first, p.MaxDelay, 1, n)
    IN  IF p.MaxDelay > 0 /\ last > p.MaxDelay THEN p.MaxDelay ELSE last

\* The attempt argument of the loop's sleepBackoff(ctx, p, attempts) call,
\* made after attempts++, and the argument had the call come first.
sleepAttempt_BeforeIncrement(n) == n - 1
sleepAttempt(n) == n

\* The attempt numbers tried: enough doublings to pass the width.
MaxAttempt == DurationBits + 2

-----------------------------------------------------------------------------
(* transport: the steps of Transport.Do *)

\* The caller's context: done once it is cancelled.  at and calls record where
\* the DoJSON call stood, and how many Transport.Do calls it had made, when
\* the context was cancelled.
Background == [done |-> FALSE, at |-> "", calls |-> 0]
Canceled(where, n) == [done |-> TRUE, at |-> where, calls |-> n]

\* <-ctx.Done() is ready, and a context that is never seen done.
Done_Never(c) == FALSE
Done(c) == c.done

\* ctx.Err()
Err(c) == IF c.done THEN ErrorsNew("context canceled") ELSE NoCause

DeadlineExceeded == ErrorsNew("context deadline exceeded")

\* policy.RateLimiter: a token bucket that starts full.  refilled counts the
\* tokens added since.
NoLimiter == [on |-> FALSE, burst |-> 0, tokens |-> 0, refilled |-> 0]
NewLimiter(b) == [on |-> TRUE, burst |-> b, tokens |-> b, refilled |-> 0]
Limiters == {NoLimiter} \cup {NewLimiter(b) : b \in 1..MaxBurst}

\* t.policy.RateLimiter != nil, and a Do that never consults the limiter.
limited_Never(l) == FALSE
limited(l) == l.on

\* RateLimiter.Wait returns nil: a token is taken.
take(l) == IF limited(l) THEN [l EXCEPT !.tokens = @ - 1] ELSE l

\* One Transport.Do call: exit is the return statement it left by ("wait":
\* the limiter's error, "dispatch": the client's error, "response"), derived
\* whether it derived its sub-context, dispatched whether it called the HTTP
\* client, cancels how often the sub-context's cancel function was invoked.
\* open counts the response bodies returned and not yet closed.
NoDo == [exit |-> "", derived |-> FALSE, dispatched |-> FALSE,
         cancels |-> 0, open |-> 0]

\* Variants of the steps below, each with one slip.
WithTimeout_NoDeadline(d) == d
waitError_Derived(d) == [d EXCEPT !.exit = "wait", !.derived = TRUE]
dispatchError_NoCancel(d) == [d EXCEPT !.exit = "dispatch"]
closeBody_Deferred(d) == d

enterDo(d) == [NoDo EXCEPT !.open = d.open]

\* if err := t.policy.RateLimiter.Wait(ctx); err != nil { return nil, err }
waitError(d) == [d EXCEPT !.exit = "wait"]

\* ctx, cancel := context.WithTimeout(ctx, t.policy.Timeout)
WithTimeout(d) == [d EXCEPT !.derived = TRUE]

\* t.hc.Do(req)
hcDo(d) == [d EXCEPT !.dispatched = TRUE]

cancel(d) == [d EXCEPT !.cancels = @ + 1]

\* if err != nil { cancel(); return nil, err }
dispatchError(d) == [cancel(d) EXCEPT !.exit = "dispatch"]

\* resp.Body = &bodyWrapper{...}; return resp, nil
wrapBody(d) == [d EXCEPT !.exit = "response", !.open = @ + 1]

\* bodyWrapper.Close on a body not closed before: the wrapped body is closed
\* and the deferred cancel runs.
closeBody(d) == cancel([d EXCEPT !.open = @ - 1])

\* bodyWrapper.Close, whatever was closed before.
bodyClose(d, closed) == IF closed THEN cancel(d) ELSE closeBody(d)

-----------------------------------------------------------------------------
(* The state machine of one DoJSON call *)

NoReq == NewRequest("", "", NilBytes)
NoResult == [returned |-> FALSE, body |-> <<>>, err |-> NoErr]
Return(b, e) == [returned |-> TRUE, body |-> b, err |-> e]

\* The goroutines of the concurrent specification, and a sleepBackoff call,
\* before they start.
Callers == 1..NumCallers
NoCallers == [c \in Callers |-> [pc |-> "idle", calls |-> 0, token |-> FALSE, sent |-> 0]]
NoBackoff == [p |-> [BaseDelay |-> 0, MaxDelay |-> 0], attempt |-> 0,
              delay |-> 0, pc |-> "off"]

\* No function of the other packages is being called.
NoFn == [name |-> "", pc |-> "off"]

\* No DoJSON and no Transport.Do call has been made.
InitNoCall ==
    /\ pc = "idle"
    /\ req = NoReq
    /\ arg = NilBytes
    /\ attempts = 0
    /\ log = <<>>
    /\ sent = <<>>
    /\ doErr = NoCause
    /\ resp = NoResp
    /\ intact = TRUE
    /\ result = NoResult
    /\ rd = NoReader
    /\ do = NoDo
    /\ ctx = Background

\* No call has been made.
InitCall == InitNoCall /\ fn = NoFn

\* A Transport without a rate limiter.
Init ==
    /\ policy \in [MaxRetries : -1..MaxRetriesBound, MaxBodyBytes : 0..MaxCap]
    /\ InitCall
    /\ lim = NoLimiter
    /\ callers = NoCallers
    /\ bk = NoBackoff

\* Transport.DoJSON up to the first iteration of doJSONWithRetry's loop, for
\* a request drawn from the given methods, paths and bodies.
StartDoJSON(methods, paths, bodies) ==
    /\ pc = "idle"
    /\ \E method \in methods, path \in paths, body \in bodies :
          /\ arg' = body
          /\ req' = ensureReplayableBody(NewRequest(method, path, body))
    /\ attempts' = 0
    /\ pc' = "attempt"
    /\ UNCHANGED <<policy, log, sent, doErr, resp, intact, result, rd, do, env>>

DoJSON == StartDoJSON(Methods, Paths, BodyArgs)

\* The loop's branch for a Transport.Do that returned err.
OnDoError(err) ==
    /\ doErr' = err
    /\ resp' = NoResp
    /\ IF transportTerminal(req.Method, attempts)
       THEN /\ result' = Return(<<>>, WithSource(KindInternal, err))
            /\ pc' = "done"
            /\ UNCHANGED attempts
       ELSE /\ attempts' = attempts + 1
            /\ pc' = "backoff"
            /\ UNCHANGED result

\* An iteration whose Transport.Do returns the HTTP client's error: the
\* dispatch failed, and the request body may have been read or not.
DoFails ==
    /\ pc = "attempt"
    /\ \E cause \in Causes, read \in BOOLEAN :
          LET r == resetBody(req) IN
          /\ log' = Append(log, Fail)
          /\ req' = IF read THEN Consumed(r) ELSE r
          /\ OnDoError(ErrorsNew(cause))
    /\ do' = dispatchError(hcDo(WithTimeout(enterDo(do))))
    /\ UNCHANGED <<policy, arg, sent, intact, rd, env>>

\* An iteration whose Transport.Do returns a response.
DoResponds ==
    /\ pc = "attempt"
    /\ \E status \in Statuses, body \in RespBodies :
          LET r == resetBody(req) IN
          /\ log' = Append(log, status)
          /\ sent' = Append(sent, Payload(r))
          /\ req' = Consumed(r)
          /\ resp' = [StatusCode |-> status, Body |-> body, readErr |-> FALSE]
          /\ doErr' = NoCause
    /\ do' = wrapBody(hcDo(WithTimeout(enterDo(do))))
    /\ pc' = "read"
    /\ UNCHANGED <<policy, arg, attempts, intact, result, rd, env>>

\* io.ReadAll(resp.Body) fails; the body is closed.
ReadFails ==
    /\ pc = "read"
    /\ do' = closeBody(do)
    /\ result' = Return(<<>>, WithSource(KindInternal, ErrorsNew("unexpected EOF")))
    /\ resp' = [resp EXCEPT !.readErr = TRUE]
    /\ intact' = FALSE
    /\ pc' = "done"
    /\ UNCHANGED <<policy, req, arg, attempts, log, sent, doErr, rd, env>>

\* io.ReadAll(resp.Body) succeeds; the body is closed: the rest of the
\* iteration.
ReadBody ==
    /\ pc = "read"
    /\ do' = closeBody(do)
    /\ LET b == ReadAll(resp) IN
       IF bodyTooLarge(b)
       THEN /\ result' = Return(<<>>, WithSource(KindInternal, ErrBodyTooLarge))
            /\ pc' = "done"
            /\ UNCHANGED attempts
       ELSE IF is2xx(resp.StatusCode)
       THEN /\ result' = Return(b, NoErr)
            /\ pc' = "done"
            /\ UNCHANGED attempts
       ELSE IF statusTerminal(req.Method, attempts, resp.StatusCode)
       THEN /\ result' = Return(<<>>, StatusErr(resp.StatusCode, req.Method,
                                                req.Path, bodyPreview(b)))
            /\ pc' = "done"
            /\ UNCHANGED attempts
       ELSE /\ attempts' = attempts + 1
            /\ pc' = "backoff"
            /\ UNCHANGED result
    /\ intact' = (intact /\ ~Oversize(resp))
    /\ UNCHANGED <<policy, req, arg, log, sent, doErr, resp, rd, env>>

\* sleepBackoff returns: its timer fired.
SleepBackoff ==
    /\ pc = "backoff"
    /\ pc' = "attempt"
    /\ UNCHANGED <<policy, call, rd, do, env>>

-----------------------------------------------------------------------------
(* A direct caller of Transport.Do reading the response body *)

\* Transport.Do returns a response.
Do ==
    /\ pc = "idle"
    /\ \E n \in 0..MaxSrcLen : rd' = bodyWrapper(Bytes(n))
    /\ do' = wrapBody(hcDo(WithTimeout(enterDo(do))))
    /\ pc' = "body"
    /\ UNCHANGED <<policy, call, env>>

\* Transport.Do returns the HTTP client's error: there is no body to read.
DoError ==
    /\ pc = "idle"
    /\ do' = dispatchError(hcDo(WithTimeout(enterDo(do))))
    /\ pc' = "failed"
    /\ UNCHANGED <<policy, call, rd, env>>

\* bodyWrapper.Read(p) with len(p) = k once the limit is used up: io.EOF.
ReadAtLimit ==
    /\ pc = "body"
    /\ rd.N <= 0
    /\ rd' = [rd EXCEPT !.eof = TRUE]
    /\ UNCHANGED <<policy, pc, call, do, env>>

\* bodyWrapper.Read(p) with len(p) = k below the limit: p is cut to N bytes
\* and the wrapped body fills in n of them, or reports its end.
Read ==
    /\ pc = "body"
    /\ rd.N > 0
    /\ ~rd.closed
    /\ \E k \in 0..MaxBuf :
          LET room == Min(k, rd.N)
              left == Len(rd.src) - rd.off
          IN  IF room = 0 THEN UNCHANGED rd
              ELSE IF left = 0 THEN rd' = [rd EXCEPT !.eof = TRUE]
              ELSE \E n \in 1..Min(room, left) :
                      rd' = [rd EXCEPT
                               !.off = rd.off + n,
                               !.N = rd.N - n,
                               !.got = rd.got \o SubSeq(rd.src, rd.off + 1, rd.off + n)]
    /\ UNCHANGED <<policy, pc, call, do, env>>

\* bodyWrapper.Read below the limit when the wrapped body fails: the
\* connection broke, the request's context ended, or the body is closed.
ReadError ==
    /\ pc = "body"
    /\ rd.N > 0
    /\ rd' = [rd EXCEPT !.failed = TRUE]
    /\ UNCHANGED <<policy, pc, call, do, env>>

\* bodyWrapper.Close, the first one or a repeated one: the wrapped body's
\* Close, then the deferred cancel.
Close ==
    /\ pc = "body"
    /\ do.cancels < MaxCloses
    /\ rd' = [rd EXCEPT !.closed = TRUE]
    /\ do' = bodyClose(do, rd.closed)
    /\ UNCHANGED <<policy, pc, call, env>>

NextRead == Do \/ DoError \/ ReadAtLimit \/ Read \/ ReadError \/ Close

SpecRead == Init /\ [][NextRead]_vars

-----------------------------------------------------------------------------
Next == DoJSON \/ DoFails \/ DoResponds \/ ReadFails \/ ReadBody \/ SleepBackoff

Spec == Init /\ [][Next]_vars

-----------------------------------------------------------------------------
(* One DoJSON call with Transport.Do taken step by step, under a rate      *)
(* limiter, a caller context that may be cancelled and the request timeout *)

\* A Transport with or without a rate limiter.
InitCtx ==
    /\ policy \in [MaxRetries : -1..MaxRetriesBound, MaxBodyBytes : {MaxCap}]
    /\ InitCall
    /\ lim \in Limiters
    /\ callers = NoCallers
    /\ bk = NoBackoff

\* Transport.DoJSON for a request without a body.
DoJSONBare == StartDoJSON(BareMethods, BarePaths, {NilBytes})

\* The caller cancels its context.
Cancel ==
    /\ ~ctx.done
    /\ pc # "done"
    /\ ctx' = Canceled(pc, Len(log))
    /\ UNCHANGED <<policy, pc, call, rd, do, lim, callers, bk, fn>>

\* The limiter's bucket gains a token.
Refill ==
    /\ lim.on
    /\ lim.tokens < lim.burst
    /\ lim' = [lim EXCEPT !.tokens = @ + 1, !.refilled = @ + 1]
    /\ UNCHANGED <<policy, pc, call, rd, do, ctx, callers, bk, fn>>

\* The loop resets the body and calls Transport.Do, which gets past the
\* limiter: there is none, or Wait returns nil, a token taken.
PassLimiter ==
    /\ pc = "attempt"
    /\ limited(lim) => (~Done(ctx) /\ lim.tokens > 0)
    /\ lim' = take(lim)
    /\ req' = resetBody(req)
    /\ do' = enterDo(do)
    /\ pc' = "send"
    /\ UNCHANGED <<policy, arg, attempts, log, sent, doErr, resp, intact,
                   result, rd, ctx, callers, bk, fn>>

\* The loop resets the body and calls Transport.Do, whose Wait returns the
\* context's error: the context was done on entry, or is cancelled while Wait
\* is blocked.
WaitCancelled ==
    /\ pc = "attempt"
    /\ limited(lim)
    /\ Done(ctx)
    /\ req' = resetBody(req)
    /\ do' = waitError(enterDo(do))
    /\ log' = Append(log, Fail)
    /\ OnDoError(Err(ctx))
    /\ UNCHANGED <<policy, arg, sent, intact, rd, env>>

\* Transport.Do derives the sub-context and the HTTP client sends the
\* request.
Dispatch ==
    /\ pc = "send"
    /\ ~Done(ctx)
    /\ do' = hcDo(WithTimeout(do))
    /\ pc' = "flight"
    /\ UNCHANGED <<policy, call, rd, env>>

\* Transport.Do derives the sub-context from a context that is done: the
\* HTTP client returns the context's error without sending.
DispatchCancelled ==
    /\ pc = "send"
    /\ Done(ctx)
    /\ do' = dispatchError(hcDo(WithTimeout(do)))
    /\ log' = Append(log, Fail)
    /\ OnDoError(Err(ctx))
    /\ UNCHANGED <<policy, req, arg, sent, intact, rd, env>>

\* t.hc.Do returns err for a request that was sent.
ClientFails(err) ==
    /\ pc = "flight"
    /\ do' = dispatchError(do)
    /\ log' = Append(log, Fail)
    /\ OnDoError(err)
    /\ UNCHANGED <<policy, req, arg, sent, intact, rd, env>>

\* The connection fails.
DispatchFails == ClientFails(ErrorsNew("connection refused"))

\* The sub-context's deadline passes before the server has answered.
DeadlineExpires == do.derived /\ ClientFails(DeadlineExceeded)

\* The caller's context is done before the server has answered.
FlightCancelled == Done(ctx) /\ ClientFails(Err(ctx))

\* The server's answer arrives, before the context is seen done.
Responds ==
    /\ pc = "flight"
    /\ ~Done(ctx)
    /\ \E status \in BareStatuses, body \in RespBodies :
          /\ log' = Append(log, status)
          /\ resp' = [StatusCode |-> status, Body |-> body, readErr |-> FALSE]
    /\ sent' = Append(sent, Payload(req))
    /\ req' = Consumed(req)
    /\ doErr' = NoCause
    /\ do' = wrapBody(do)
    /\ pc' = "read"
    /\ UNCHANGED <<policy, arg, attempts, intact, result, rd, env>>

\* sleepBackoff returns: the context is done.
BackoffCancelled ==
    /\ pc = "backoff"
    /\ Done(ctx)
    /\ pc' = "attempt"
    /\ UNCHANGED <<policy, call, rd, do, env>>

NextCtx ==
    \/ DoJSONBare \/ Cancel \/ Refill
    \/ PassLimiter \/ WaitCancelled
    \/ Dispatch \/ DispatchCancelled
    \/ DispatchFails \/ DeadlineExpires \/ FlightCancelled \/ Responds
    \/ ReadBody \/ ReadFails
    \/ SleepBackoff \/ BackoffCancelled

SpecCtx == InitCtx /\ [][NextCtx]_vars

\* The steps a started call takes by itself, and on the cancellation of its
\* context, without waiting for the limiter, the server or a timer.
OwnSteps ==
    \/ PassLimiter \/ WaitCancelled
    \/ Dispatch \/ DispatchCancelled
    \/ FlightCancelled \/ BackoffCancelled

\* A call whose goroutine is scheduled: it takes its own steps.
FairCancel == InitCtx /\ [][NextCtx]_vars /\ WF_vars(OwnSteps)

\* The steps that timers bring about: the request's deadline, the end of the
\* backoff delay, and a body read that the deadline bounds.
TimedSteps == DeadlineExpires \/ SleepBackoff \/ ReadBody \/ ReadFails

\* A scheduled call with running timers and a limiter that keeps refilling.
FairCall ==
    /\ InitCtx /\ [][NextCtx]_vars
    /\ WF_vars(OwnSteps \/ TimedSteps)
    /\ WF_vars(Refill)

-----------------------------------------------------------------------------
(* DoJSON calls whose request cannot be constructed *)

\* Arguments http.NewRequestWithContext rejects: a method that is not a
\* token, a url that does not parse.
InvalidMethods == {"BAD METHOD"}
InvalidURLs == {"://x"}

\* req, err := http.NewRequestWithContext(...); if err != nil { return nil, err }
NewRequestFails ==
    /\ pc = "idle"
    /\ \E method \in BareMethods \cup InvalidMethods, url \in BarePaths \cup InvalidURLs :
          /\ method \in InvalidMethods \/ url \in InvalidURLs
          /\ result' = Return(<<>>, Plain(ErrorsNew(
                           IF method \in InvalidMethods
                           THEN "net/http: invalid method"
                           ELSE "missing protocol scheme")))
    /\ pc' = "done"
    /\ UNCHANGED <<policy, req, arg, attempts, log, sent, doErr, resp, intact,
                   rd, do, env>>

NextNewRequest == NextCtx \/ NewRequestFails

SpecNewRequest == InitCtx /\ [][NextNewRequest]_vars

-----------------------------------------------------------------------------
(* DoJSON calls on a Transport whose MaxBodyBytes may be zero or negative *)

InitCaps ==
    /\ policy \in [MaxRetries : 0..1, MaxBodyBytes : (0 - NegCaps)..MaxCap]
    /\ InitCall
    /\ lim = NoLimiter
    /\ callers = NoCallers
    /\ bk = NoBackoff

SpecCaps == InitCaps /\ [][Next]_vars

-----------------------------------------------------------------------------
(* DoJSON calls answered with bodies around the length of the preview *)

\* A cap that lets every long body through, and the bodies: short ones, and
\* ones of about MaxRawBodyBytes bytes.
LongCap == MaxRawBodyBytes + PreviewSlack
LongBodies ==
    RespBodies \cup {Bytes(n) : n \in (MaxRawBodyBytes - PreviewSlack)..LongCap}

\* The zero value of Policy.MaxBodyBytes, or the large cap.
InitPreview ==
    /\ policy \in [MaxRetries : 0..MaxRetriesBound, MaxBodyBytes : {0, LongCap}]
    /\ InitCall
    /\ lim = NoLimiter
    /\ callers = NoCallers
    /\ bk = NoBackoff

\* An iteration whose Transport.Do returns a response.
LongResponse ==
    /\ pc = "attempt"
    /\ \E status \in BareStatuses, body \in LongBodies :
          LET r == resetBody(req) IN
          /\ log' = Append(log, status)
          /\ sent' = Append(sent, Payload(r))
          /\ req' = Consumed(r)
          /\ resp' = [StatusCode |-> status, Body |-> body, readErr |-> FALSE]
          /\ doErr' = NoCause
    /\ do' = wrapBody(hcDo(WithTimeout(enterDo(do))))
    /\ pc' = "read"
    /\ UNCHANGED <<policy, arg, attempts, intact, result, rd, env>>

NextPreview == DoJSONBare \/ LongResponse \/ ReadBody \/ SleepBackoff

SpecPreview == InitPreview /\ [][NextPreview]_vars

-----------------------------------------------------------------------------
(* Calls of Classify *)

ClassifyStatuses == -1..MaxStatus

InitClassify ==
    /\ policy = [MaxRetries |-> 0, MaxBodyBytes |-> MaxCap]
    /\ InitNoCall
    /\ lim = NoLimiter
    /\ callers = NoCallers
    /\ bk = NoBackoff
    /\ fn \in [name : {"Classify"}, pc : {"called"}, status : ClassifyStatuses,
                body : ClassifyBodies, out : {NoCause}]

ClassifyReturns ==
    /\ fn.name = "Classify"
    /\ fn.pc = "called"
    /\ fn' = [fn EXCEPT !.out = Classify(fn.status, fn.body), !.pc = "returned"]
    /\ UNCHANGED <<policy, pc, call, rd, do, ctx, lim, callers, bk>>

SpecClassify == InitClassify /\ [][ClassifyReturns]_vars

-----------------------------------------------------------------------------
(* Calls of Redact *)

\* Every string of up to n characters over a blank and two letters.
RECURSIVE ShortStrings(_)
ShortStrings(n) ==
    IF n = 0 THEN {""}
    ELSE LET S == ShortStrings(n - 1)
         IN  S \cup {t \o c : t \in S, c \in {" ", "a", "b"}}

\* n different letters, n letters with a blank among them, and the blanks
\* put around a string.
Letters(n) == SubSeq("abcdefghijklmnopqrstuvwxyz", 1, n)
Spaced(n) == IF n < 2 THEN Letters(n)
             ELSE SubSeq(Letters(n), 1, 1) \o " " \o SubSeq(Letters(n), 3, n)
Pads == {"", " ", "\t "}

LongStrings ==
    {l \o core \o r : l \in Pads, r \in Pads,
                      core \in {Letters(n) : n \in 0..MaxCore}
                               \cup {Spaced(n) : n \in 0..MaxCore}}

RedactInputs == ShortStrings(MaxShort) \cup LongStrings

InitRedact ==
    /\ policy = [MaxRetries |-> 0, MaxBodyBytes |-> MaxCap]
    /\ InitNoCall
    /\ lim = NoLimiter
    /\ callers = NoCallers
    /\ bk = NoBackoff
    /\ fn \in [name : {"Redact"}, pc : {"called"}, s : RedactInputs, out : {""}]

RedactReturns ==
    /\ fn.name = "Redact"
    /\ fn.pc = "called"
    /\ fn' = [fn EXCEPT !.out = Redact(fn.s), !.pc = "returned"]
    /\ UNCHANGED <<policy, pc, call, rd, do, ctx, lim, callers, bk>>

SpecRedact == InitRedact /\ [][RedactReturns]_vars

-----------------------------------------------------------------------------
(* Calls of RedactHeaders, and what the caller does to the two headers     *)
(* afterwards                                                              *)

\* The keys the headers hold: sensitive by the list, sensitive by a word,
\* not sensitive, in canonical form and not.
HeaderKeySets ==
    {{}, {"Authorization"}, {"authorization"}, {"Cookie"}, {"X-Api-Key"},
     {"x-SESSION-id"}, {"Monkey"}, {"User-Agent"}, {"x-custom"}, {"bad key"},
     {"Authorization", "User-Agent"}, {"X-Api-Key", "x-custom"},
     {"authorization", "Authorization"}, {"x-custom", "X-Custom"}}

\* The values: short ones, bearer tokens, and values of about 16 bytes, with
\* and without blanks around them.
HeaderValues ==
    <<"ua", "Bearer abcdefghijklmnopqrstuvwxyz", Letters(16), " ua",
      "bearer abc", Letters(15), " " \o Letters(15) \o " ", "Bearer ", Letters(17)>>

\* The value lists: up to MaxValues values that follow one another in
\* HeaderValues.
ValueLists ==
    {SubSeq(HeaderValues \o HeaderValues, i, i + n - 1) :
        i \in 1..Len(HeaderValues), n \in 0..MaxValues}

\* The sequences that hold every element of S once.
Orders(S) ==
    {o \in [1..Cardinality(S) -> S] : \A k \in S : \E i \in DOMAIN o : o[i] = k}

\* The headers over a key set, with the heap that holds their value lists.
HeadersOver(ks) ==
    {[h |-> Header([k \in ks |-> CHOOSE i \in DOMAIN o : o[i] = k]),
      heap |-> [i \in DOMAIN o |-> vs[o[i]]]] :
        o \in {CHOOSE o \in Orders(ks) : TRUE}, vs \in [ks -> ValueLists]}

HeaderInputs ==
    {[h |-> NilHeader, heap |-> <<>>]} \cup UNION {HeadersOver(ks) : ks \in HeaderKeySets}

InitHeaders ==
    /\ policy = [MaxRetries |-> 0, MaxBodyBytes |-> MaxCap]
    /\ InitNoCall
    /\ lim = NoLimiter
    /\ callers = NoCallers
    /\ bk = NoBackoff
    /\ \E in \in HeaderInputs :
          fn = [name |-> "RedactHeaders", pc |-> "called", h |-> in.h,
                heap |-> in.heap, out |-> NilHeader,
                in0 |-> Content(in.h, in.heap), out0 |-> <<>>]

\* RedactHeaders returns; the range visits the keys in any order.
RedactHeadersReturns ==
    /\ fn.name = "RedactHeaders"
    /\ fn.pc = "called"
    /\ \E order \in Orders(Keys(fn.h)) :
          LET r == RedactHeaders(fn.h, order, fn.heap)
          IN  fn' = [fn EXCEPT !.out = r.out, !.heap = r.heap,
                               !.out0 = Content(r.out, r.heap), !.pc = "returned"]
    /\ UNCHANGED <<policy, pc, call, rd, do, ctx, lim, callers, bk>>

\* The caller overwrites a value of header hd in place.
Overwrite(hd, to) ==
    /\ fn.name = "RedactHeaders"
    /\ fn.pc = "returned"
    /\ \E k \in Keys(hd) :
          \E i \in 1..Len(fn.heap[hd.m[k]]) :
             fn' = [fn EXCEPT !.heap[hd.m[k]][i] = "changed", !.pc = to]
    /\ UNCHANGED <<policy, pc, call, rd, do, ctx, lim, callers, bk>>

ChangeOutput == Overwrite(fn.out, "outChanged")
ChangeInput == Overwrite(fn.h, "inChanged")

NextHeaders == RedactHeadersReturns \/ ChangeOutput \/ ChangeInput

SpecHeaders == InitHeaders /\ [][NextHeaders]_vars

-----------------------------------------------------------------------------
(* Calls of the construction helpers of the error taxonomy *)

Reasons == {"", "invalid price precision"}
ChainIDs == {0, 137, 80002}
Places == {"", "US", "NY"}

HelperCalls ==
    [helper : {"StatusErr"}, statusCode : Statuses, method : Methods \cup {""},
     path : Paths, message : Reasons]
    \cup [helper : {"ValidationErr"}, reason : Reasons]
    \cup [helper : {"SyncErr"}]
    \cup [helper : {"MissingContractConfigErr"}, chainID : ChainIDs, negRisk : BOOLEAN]
    \cup [helper : {"GeoblockErr"}, ip : Places, country : Places, region : Places]

InitHelpers ==
    /\ policy = [MaxRetries |-> 0, MaxBodyBytes |-> MaxCap]
    /\ InitNoCall
    /\ lim = NoLimiter
    /\ callers = NoCallers
    /\ bk = NoBackoff
    /\ \E c \in HelperCalls :
          fn = [name |-> "helper", pc |-> "called", args |-> c, out |-> NoErr]

HelperReturns ==
    /\ fn.name = "helper"
    /\ fn.pc = "called"
    /\ LET a == fn.args
           e == CASE a.helper = "StatusErr" ->
                       StatusErr(a.statusCode, a.method, a.path, a.message)
                  [] a.helper = "ValidationErr" -> ValidationErr(a.reason)
                  [] a.helper = "SyncErr" -> SyncErr
                  [] a.helper = "MissingContractConfigErr" ->
                       MissingContractConfigErr(a.chainID, a.negRisk)
                  [] a.helper = "GeoblockErr" -> GeoblockErr(a.ip, a.country, a.region)
       IN  fn' = [fn EXCEPT !.out = e, !.pc = "returned"]
    /\ UNCHANGED <<policy, pc, call, rd, do, ctx, lim, callers, bk>>

SpecHelpers == InitHelpers /\ [][HelperReturns]_vars

-----------------------------------------------------------------------------
(* Error chains built with WithSource, and what is extracted from them *)

\* The innermost causes: none, an errors.New value and the detail types,
\* each with the text its Error method is to give.
InnermostCauses ==
    {[v |-> NoCause, text |-> ""],
     [v |-> ErrorsNew("boom"), text |-> "boom"],
     [v |-> [type |-> "Status", StatusCode |-> 404, Method |-> "GET", Path |-> "/x",
             Message |-> " not found "],
      text |-> "error(404) making GET call to /x with not found"],
     [v |-> [type |-> "Status", StatusCode |-> 500, Method |-> "", Path |-> "/x",
             Message |-> ""],
      text |-> "error(500) making UNKNOWN call to /x with unknown error"],
     [v |-> [type |-> "Validation", Reason |-> " bad price "],
      text |-> "invalid: bad price"],
     [v |-> [type |-> "Synchronization"],
      text |-> "synchronization error: multiple goroutines are attempting to log in or log out"],
     [v |-> [type |-> "MissingContractConfig", ChainID |-> 137, NegRisk |-> TRUE],
      text |-> "missing contract config for chain id 137 with neg_risk = true"],
     [v |-> [type |-> "Geoblock", IP |-> "1.2.3.4", Country |-> "US", Region |-> "NY"],
      text |-> "access blocked from country: US, region: NY, ip: 1.2.3.4"]}

NotInspected == [msg |-> "", top |-> [ok |-> FALSE, val |-> NoCause],
                 status |-> [ok |-> FALSE, val |-> NoCause],
                 validation |-> [ok |-> FALSE, val |-> NoCause]]

InitChain ==
    /\ policy = [MaxRetries |-> 0, MaxBodyBytes |-> MaxCap]
    /\ InitNoCall
    /\ lim = NoLimiter
    /\ callers = NoCallers
    /\ bk = NoBackoff
    /\ \E c \in InnermostCauses :
          fn = [name |-> "chain", pc |-> "built", cause |-> c, kinds |-> <<>>,
                err |-> c.v, out |-> NotInspected]

\* WithSource(kind, err) wraps the chain built so far.
Wrap ==
    /\ fn.name = "chain"
    /\ fn.pc = "built"
    /\ Len(fn.kinds) < MaxDepth
    /\ \E kind \in {KindStatus, KindValidation, KindInternal} :
          fn' = [fn EXCEPT !.err = WithSource(kind, @), !.kinds = <<kind>> \o @]
    /\ UNCHANGED <<policy, pc, call, rd, do, ctx, lim, callers, bk>>

\* The caller takes the chain apart: err.Error(), errors.As for *Error,
\* AsStatus and AsValidation.
Inspect ==
    /\ fn.name = "chain"
    /\ fn.pc = "built"
    /\ Len(fn.kinds) > 0
    /\ fn' = [fn EXCEPT !.pc = "inspected",
                        !.out = [msg |-> Error(fn.err),
                                 top |-> errorsAs(fn.err, "Error"),
                                 status |-> AsStatus(fn.err),
                                 validation |-> AsValidation(fn.err)]]
    /\ UNCHANGED <<policy, pc, call, rd, do, ctx, lim, callers, bk>>

NextChain == Wrap \/ Inspect

SpecChain == InitChain /\ [][NextChain]_vars

-----------------------------------------------------------------------------
(* Calls of NewPublicClient, and the requests made through the client *)

\* The base URLs: the parts a URL is put together from, present, absent and
\* malformed.
URLParts ==
    [pad : {"", " "},
     scheme : {"", "https:", "http:", "HTTPS:", ":", "ht tp:"},
     authority : {"", "//", "//example.com", "//exa mple.com"},
     path : {"", "/", "/base", "/base?q=1#f"}]
URLText(p) == p.pad \o p.scheme \o p.authority \o p.path \o p.pad

InitClient ==
    /\ policy = [MaxRetries |-> 0, MaxBodyBytes |-> MaxCap]
    /\ InitNoCall
    /\ lim = NoLimiter
    /\ callers = NoCallers
    /\ bk = NoBackoff
    /\ \E p \in URLParts, requireHTTPS \in BOOLEAN :
          fn = [name |-> "NewPublicClient", pc |-> "called", parts |-> p,
                baseURL |-> URLText(p), requireHTTPS |-> requireHTTPS,
                client |-> NoClient, err |-> NoErr, requests |-> 0]

NewPublicClientReturns ==
    /\ fn.name = "NewPublicClient"
    /\ fn.pc = "called"
    /\ LET r == NewPublicClient(fn.baseURL, fn.requireHTTPS)
       IN  fn' = [fn EXCEPT !.client = r.client, !.err = r.err, !.pc = "returned"]
    /\ UNCHANGED <<policy, pc, call, rd, do, ctx, lim, callers, bk>>

\* The caller makes a request through the client it got: c.Ping(ctx).
Ping ==
    /\ fn.name = "NewPublicClient"
    /\ fn.pc = "returned"
    /\ ~fn.client.nil
    /\ fn' = [fn EXCEPT !.requests = @ + 1, !.pc = "pinged"]
    /\ UNCHANGED <<policy, pc, call, rd, do, ctx, lim, callers, bk>>

NextClient == NewPublicClientReturns \/ Ping

SpecClient == InitClient /\ [][NextClient]_vars

-----------------------------------------------------------------------------
(* Calls of APICreds.String *)

\* The values of a field: absent, short, long, one with a quote, and some
\* that resemble the text around them.
CredValues ==
    {"", "abc", "Key", "a\"b", "abc***xyz", "key_abcdefghijklmnopqrstuvwxyz",
     "secret_abcdefghijklmnopqrstuvwxyz", "pass_abcdefghijklmnopqrstuvwxyz"}

InitCreds ==
    /\ policy = [MaxRetries |-> 0, MaxBodyBytes |-> MaxCap]
    /\ InitNoCall
    /\ lim = NoLimiter
    /\ callers = NoCallers
    /\ bk = NoBackoff
    /\ \E k \in CredValues, sec \in CredValues, p \in CredValues :
          fn = [name |-> "APICreds.String", pc |-> "called",
                c |-> APICreds(k, sec, p), out |-> ""]

StringReturns ==
    /\ fn.name = "APICreds.String"
    /\ fn.pc = "called"
    /\ fn' = [fn EXCEPT !.out = APICredsString(fn.c), !.pc = "returned"]
    /\ UNCHANGED <<policy, pc, call, rd, do, ctx, lim, callers, bk>>

SpecCreds == InitCreds /\ [][StringReturns]_vars

-----------------------------------------------------------------------------
(* Transport.Do and the User-Agent header of the request, over the attempts *)
(* made with one request                                                    *)

\* http.Header.Get and http.Header.Set on a header that maps keys to value
\* lists.
HeaderGet(h, key) ==
    LET ck == CanonicalHeaderKey(key)
    IN  IF ck \in DOMAIN h /\ Len(h[ck]) > 0 THEN h[ck][1] ELSE ""
HeaderSet(h, key, value) ==
    LET ck == CanonicalHeaderKey(key)
    IN  [k \in DOMAIN h \cup {ck} |-> IF k = ck THEN <<value>> ELSE h[k]]

\* Lines 133-136 of Transport.Do: the header of the request, which
\* req.WithContext shares with the caller's request, after them.
setUserAgent(userAgent, h) ==
    IF userAgent # "" /\ HeaderGet(h, "User-Agent") = ""
    THEN HeaderSet(h, "User-Agent", userAgent)
    ELSE h

DefaultUserAgent == "poly-go-clob-client/0.1"
PolicyUserAgents == {"", DefaultUserAgent, "bot/2"}

\* The headers of the caller's request: without a User-Agent, with one, with
\* an empty one, and with one written under a key not in canonical form.
NoHeader == [k \in {} |-> <<>>]
RequestHeaders ==
    LET uas == {NoHeader, "User-Agent" :> <<"caller/1.0">>, "User-Agent" :> <<"">>,
                "User-Agent" :> <<"bot/2">>, "user-agent" :> <<"caller/1.0">>}
        others == {NoHeader, "Accept" :> <<"application/json">>,
                   "Content-Type" :> <<"application/json">>}
    IN  {u @@ o : u \in uas, o \in others}

InitUserAgent ==
    /\ policy = [MaxRetries |-> MaxRetriesBound, MaxBodyBytes |-> MaxCap]
    /\ InitNoCall
    /\ lim = NoLimiter
    /\ callers = NoCallers
    /\ bk = NoBackoff
    /\ \E ua \in PolicyUserAgents, h \in RequestHeaders :
          fn = [name |-> "Transport.Do", pc |-> "ready", userAgent |-> ua,
                header0 |-> h, header |-> h, attempts |-> 0]

\* Transport.Do is called with the request and hands it to the HTTP client.
DoSends ==
    /\ fn.name = "Transport.Do"
    /\ fn.pc = "ready"
    /\ fn' = [fn EXCEPT !.header = setUserAgent(fn.userAgent, @),
                        !.attempts = @ + 1, !.pc = "flight"]
    /\ UNCHANGED <<policy, pc, call, rd, do, ctx, lim, callers, bk>>

\* The attempt ends and the loop of doJSONWithRetry retries the request.
AttemptRetried ==
    /\ fn.name = "Transport.Do"
    /\ fn.pc = "flight"
    /\ fn.attempts <= policy.MaxRetries
    /\ fn' = [fn EXCEPT !.pc = "ready"]
    /\ UNCHANGED <<policy, pc, call, rd, do, ctx, lim, callers, bk>>

\* The attempt ends and the request is not sent again.
AttemptFinal ==
    /\ fn.name = "Transport.Do"
    /\ fn.pc = "flight"
    /\ fn' = [fn EXCEPT !.pc = "done"]
    /\ UNCHANGED <<policy, pc, call, rd, do, ctx, lim, callers, bk>>

NextUserAgent == DoSends \/ AttemptRetried \/ AttemptFinal

SpecUserAgent == InitUserAgent /\ [][NextUserAgent]_vars

-----------------------------------------------------------------------------
(* Goroutines calling Transport.Do concurrently on one Transport: the      *)
(* attempts of their DoJSON calls                                          *)

InitLimiter ==
    /\ policy = [MaxRetries |-> MaxCalls - 1, MaxBodyBytes |-> MaxCap]
    /\ InitCall
    /\ lim \in Limiters
    /\ callers = NoCallers
    /\ bk = NoBackoff

\* Goroutine c calls Transport.Do.
CallDo(c) ==
    /\ callers[c].pc = "idle"
    /\ callers[c].calls < MaxCalls
    /\ callers' = [callers EXCEPT ![c].pc = "wait", ![c].calls = @ + 1,
                                  ![c].token = FALSE]
    /\ UNCHANGED <<policy, pc, call, rd, do, ctx, lim, bk, fn>>

\* c gets past the limiter: there is none, or Wait returns nil, a token taken.
Acquire(c) ==
    /\ callers[c].pc = "wait"
    /\ limited(lim) => lim.tokens > 0
    /\ lim' = take(lim)
    /\ callers' = [callers EXCEPT ![c].pc = "send", ![c].token = limited(lim)]
    /\ UNCHANGED <<policy, pc, call, rd, do, ctx, bk, fn>>

\* c's request is sent.
Send(c) ==
    /\ callers[c].pc = "send"
    /\ callers' = [callers EXCEPT ![c].pc = "flight", ![c].sent = @ + 1]
    /\ UNCHANGED <<policy, pc, call, rd, do, ctx, lim, bk, fn>>

\* c's Transport.Do returns.
Finish(c) ==
    /\ callers[c].pc = "flight"
    /\ callers' = [callers EXCEPT ![c].pc = "idle"]
    /\ UNCHANGED <<policy, pc, call, rd, do, ctx, lim, bk, fn>>

NextLimiter ==
    \/ Refill
    \/ \E c \in Callers : CallDo(c) \/ Acquire(c) \/ Send(c) \/ Finish(c)

SpecLimiter == InitLimiter /\ [][NextLimiter]_vars

-----------------------------------------------------------------------------
(* Goroutines calling Transport.DoJSON concurrently on one Transport *)

\* The attempts variable of the doJSONWithRetry call goroutine c runs, and
\* the counter had it been a field of the Transport.
RECURSIVE attemptsUpTo(_)
attemptsUpTo(n) == IF n = 0 THEN 0 ELSE callers[n].attempts + attemptsUpTo(n - 1)
loopAttempts_OnTransport(c) == attemptsUpTo(NumCallers)
loopAttempts(c) == callers[c].attempts

\* NewTransport(hc, p) has returned the Transport, and no goroutine has
\* called it.
InitConcurrent ==
    /\ policy \in [MaxRetries : {0, MaxRetriesBound}, MaxBodyBytes : {MaxCap},
                   Timeout : {12}, UserAgent : {"", DefaultUserAgent}]
    /\ InitNoCall
    /\ fn = [name |-> "NewTransport", pc |-> "returned", p |-> policy]
    /\ lim = NoLimiter
    /\ bk = NoBackoff
    /\ callers = [c \in Callers |->
                    [pc |-> "idle", req |-> NoReq, attempts |-> 0, log |-> <<>>,
                     arg |-> NilBytes, sent |-> <<>>, failed |-> FALSE]]

\* Goroutine c calls DoJSON with a body of c bytes: the request is built
\* from c's arguments and made replayable, and c's loop starts.
CallDoJSON(c) ==
    /\ callers[c].pc = "idle"
    /\ \E method \in {"GET", "POST"}, body \in {Slice(Bytes(c))} :
          callers' = [callers EXCEPT
                        ![c].pc = "attempt",
                        ![c].arg = body,
                        ![c].req = ensureReplayableBody(NewRequest(method, "/x", body)),
                        ![c].attempts = 0]
    /\ UNCHANGED <<policy, pc, call, rd, do, ctx, lim, bk, fn>>

\* An iteration of c's loop whose Transport.Do returns an error after the
\* request body was read.
CallerDoFails(c) ==
    /\ callers[c].pc = "attempt"
    /\ LET r == resetBody(callers[c].req)
           last == transportTerminal(r.Method, loopAttempts(c))
       IN  callers' = [callers EXCEPT
                         ![c].req = Consumed(r),
                         ![c].log = Append(@, Fail),
                         ![c].failed = last,
                         ![c].attempts = IF last THEN @ ELSE loopAttempts(c) + 1,
                         ![c].pc = IF last THEN "done" ELSE "backoff"]
    /\ UNCHANGED <<policy, pc, call, rd, do, ctx, lim, bk, fn>>

\* An iteration of c's loop whose Transport.Do returns a response with a
\* body within the cap, which is read and closed.
CallerDoResponds(c) ==
    /\ callers[c].pc = "attempt"
    /\ \E status \in {200, 500} :
          LET r == resetBody(callers[c].req)
              last == is2xx(status)
                      \/ statusTerminal(r.Method, loopAttempts(c), status)
          IN  callers' = [callers EXCEPT
                            ![c].req = Consumed(r),
                            ![c].log = Append(@, status),
                            ![c].sent = Append(@, Payload(r)),
                            ![c].failed = ~is2xx(status),
                            ![c].attempts = IF last THEN @ ELSE loopAttempts(c) + 1,
                            ![c].pc = IF last THEN "done" ELSE "backoff"]
    /\ UNCHANGED <<policy, pc, call, rd, do, ctx, lim, bk, fn>>

\* c's sleepBackoff returns.
CallerSleepBackoff(c) ==
    /\ callers[c].pc = "backoff"
    /\ callers' = [callers EXCEPT ![c].pc = "attempt"]
    /\ UNCHANGED <<policy, pc, call, rd, do, ctx, lim, bk, fn>>

NextConcurrent ==
    \E c \in Callers :
       CallDoJSON(c) \/ CallerDoFails(c) \/ CallerDoResponds(c) \/ CallerSleepBackoff(c)

SpecConcurrent == InitConcurrent /\ [][NextConcurrent]_vars

-----------------------------------------------------------------------------
(* One sleepBackoff call *)

InitBackoff ==
    /\ policy = [MaxRetries |-> MaxAttempt, MaxBodyBytes |-> MaxCap]
    /\ InitCall
    /\ lim = NoLimiter
    /\ callers = NoCallers
    /\ bk \in [p : [BaseDelay : -1..MaxBaseDelay, MaxDelay : -1..MaxMaxDelay],
                attempt : 0..MaxAttempt, delay : {0}, pc : {"called"}]

\* sleepBackoff up to t := time.NewTimer(delay).
NewTimer ==
    /\ bk.pc = "called"
    /\ bk' = [bk EXCEPT !.delay = backoffDelay(bk.p, bk.attempt), !.pc = "timer"]
    /\ UNCHANGED <<policy, pc, call, rd, do, ctx, lim, callers, fn>>

\* The select of sleepBackoff: the timer fires, or the context is done.
TimerOrDone ==
    /\ bk.pc = "timer"
    /\ bk' = [bk EXCEPT !.pc = "returned"]
    /\ UNCHANGED <<policy, pc, call, rd, do, ctx, lim, callers, fn>>

NextBackoff == NewTimer \/ TimerOrDone

SpecBackoff == InitBackoff /\ [][NextBackoff]_vars

-----------------------------------------------------------------------------
(* One DoJSON call and the sleepBackoff calls of its loop *)

\* No sleepBackoff call has been made: waits lists, for every call made, the
\* attempt argument, the delay of the timer and the number of Transport.Do
\* invocations made before it.
InitWaits ==
    /\ policy \in [MaxRetries : -1..MaxRetriesBound, MaxBodyBytes : {MaxCap}]
    /\ InitCall
    /\ lim = NoLimiter
    /\ callers = NoCallers
    /\ \E base \in {0, 1}, max \in {0, MaxMaxDelay} :
          bk = [p |-> [BaseDelay |-> base, MaxDelay |-> max], attempt |-> 0,
                delay |-> 0, pc |-> "off", waits |-> <<>>]

\* The loop calls sleepBackoff(ctx, p, attempts), which returns when its
\* timer fires.
SleepBackoffCall ==
    /\ pc = "backoff"
    /\ LET n == sleepAttempt(attempts)
           d == backoffDelay(bk.p, n)
       IN  bk' = [bk EXCEPT !.attempt = n, !.delay = d, !.pc = "returned",
                            !.waits = Append(@, [attempt |-> n, delay |-> d,
                                                 after |-> Len(log)])]
    /\ pc' = "attempt"
    /\ UNCHANGED <<policy, call, rd, do, ctx, lim, callers, fn>>

NextWaits ==
    DoJSON \/ DoFails \/ DoResponds \/ ReadFails \/ ReadBody \/ SleepBackoffCall

SpecWaits == InitWaits /\ [][NextWaits]_vars

-----------------------------------------------------------------------------
(* Vocabulary of the properties *)

IdempotentMethods == {"GET", "HEAD", "OPTIONS", "PUT", "DELETE"}
RetryableStatus(status) == status = 429 \/ status \in 500..599

Last == log[Len(log)]
\* The latest attempt has ended (the loop decided what to do with it) ...
Decided == pc \in {"backoff", "done"} /\ Len(log) > 0
\* ... in a transport-level failure
DecidedFailure == Decided /\ Last = Fail
\* ... in a response whose body was read in full and is within the cap
DecidedResponse == Decided /\ Last # Fail /\ ~resp.readErr /\ ~Oversize(resp)
\* Retries made before the latest attempt.
RetriesMade == Len(log) - 1

IsStatusErr(e, code) ==
    /\ e.kind = KindStatus
    /\ e.src.type = "Status"
    /\ e.src.StatusCode = code
    /\ e.src.Method = req.Method
    /\ e.src.Path = req.Path

-----------------------------------------------------------------------------
\* C1: for an idempotent method and a retry count MaxRetries >= 0, against a
\* server that answers every attempt with status 500, the call never makes
\* more than MaxRetries+1 attempts, and when it returns it has made exactly
\* MaxRetries+1 attempts and returns a Status-kind error with status code 500.
C1_RetryLimit ==
    (/\ pc # "idle"
     /\ req.Method \in IdempotentMethods
     /\ policy.MaxRetries >= 0
     /\ intact
     /\ \A i \in 1..Len(log) : log[i] = 500)
    => /\ Len(log) <= policy.MaxRetries + 1
       /\ pc = "done" => /\ Len(log) = policy.MaxRetries + 1
                         /\ result.returned
                         /\ IsStatusErr(result.err, 500)

C1_Witness ==
    /\ pc = "done"
    /\ req.Method = "GET"
    /\ policy.MaxRetries = 2
    /\ intact
    /\ log = <<500, 500, 500>>
    /\ IsStatusErr(result.err, 500)

\* C2: a method outside the idempotent set is never retried, for every value
\* of MaxRetries: at most one attempt is made, and when that attempt ends in
\* status 500 or 429 or in a transport failure the call has returned an error
\* after exactly one attempt.
C2_NonIdempotentNeverRetried ==
    (pc # "idle" /\ req.Method \notin IdempotentMethods)
    => /\ Len(log) <= 1
       /\ pc # "backoff"
       /\ attempts = 0
       /\ (Decided /\ Last \in {500, 429, Fail})
             => /\ pc = "done"
                /\ Len(log) = 1
                /\ result.returned
                /\ IsErr(result.err)

C2_Witness ==
    /\ pc = "done"
    /\ req.Method = "POST"
    /\ policy.MaxRetries = 2
    /\ log = <<500>>
    /\ IsErr(result.err)

\* C3: the methods DoJSON retries are exactly GET, HEAD, OPTIONS, PUT and
\* DELETE: a second attempt is made only for these, each of them is retried
\* after a retryable outcome while retries remain, and a call with one of them
\* that is answered 500 and then 200 makes exactly 2 attempts and returns the
\* body of the 200 response without error.
C3_IdempotentSet ==
    /\ Len(log) >= 2 => req.Method \in IdempotentMethods
    /\ (/\ Decided
        /\ req.Method \in IdempotentMethods
        /\ policy.MaxRetries >= 1
        /\ Len(log) = 1
        /\ (DecidedFailure \/ (DecidedResponse /\ RetryableStatus(Last))))
       => pc = "backoff"
    /\ (/\ Decided
        /\ req.Method \in IdempotentMethods
        /\ intact
        /\ Len(log) >= 2
        /\ log[1] = 500
        /\ log[2] = 200)
       => /\ pc = "done"
          /\ Len(log) = 2
          /\ result.err = NoErr
          /\ result.body = resp.Body

C3_Witness ==
    /\ pc = "done"
    /\ req.Method = "PUT"
    /\ log = <<500, 200>>
    /\ intact
    /\ result.err = NoErr
    /\ result.body = Bytes(1)

\* C4: every attempt of a call that carries a body transmits exactly the bytes
\* the caller gave, the first attempt and every retry alike; a call without a
\* body transmits none.
C4_BodyReplayed ==
    \A i \in 1..Len(sent) : sent[i] = arg.bytes

C4_Witness ==
    /\ arg = Slice(Bytes(2))
    /\ req.Method = "PUT"
    /\ log = <<500, 200>>
    /\ sent = <<Bytes(2), Bytes(2)>>

\* C5: a call ended by a non-2xx response returns one error of kind Status
\* whose Status record carries that response's status code, the request
\* method and the request path; a call ended by a transport failure or a body
\* read failure returns an error of kind Internal that wraps the cause.
C5_ErrorKinds ==
    /\ (pc = "done" /\ DecidedResponse /\ Last \notin 200..299)
       => /\ result.returned
          /\ result.body = <<>>
          /\ IsStatusErr(result.err, resp.StatusCode)
          /\ resp.StatusCode = Last
    /\ (pc = "done" /\ DecidedFailure)
       => result.err = [kind |-> KindInternal, src |-> doErr]
    /\ (pc = "done" /\ Len(log) > 0 /\ Last # Fail /\ resp.readErr)
       => /\ result.err.kind = KindInternal
          /\ result.err.src = ErrorsNew("unexpected EOF")

C5_Witness ==
    /\ pc = "done"
    /\ req.Method = "GET"
    /\ req.Path = "/x"
    /\ policy.MaxRetries = 0
    /\ log = <<429>>
    /\ IsStatusErr(result.err, 429)

\* C6: after an attempt obtains a non-2xx response, the call retries if and
\* only if the method is idempotent, fewer than MaxRetries retries were made
\* and the status is 429 or in 500..599; otherwise it returns the Status error
\* of that response with no further attempt.
C6_StatusRetryRule ==
    (DecidedResponse /\ Last \notin 200..299)
    => /\ pc = "backoff" <=> /\ req.Method \in IdempotentMethods
                             /\ RetriesMade < policy.MaxRetries
                             /\ RetryableStatus(Last)
       /\ pc = "done" => IsStatusErr(result.err, Last)
       /\ pc = "backoff" => ~result.returned /\ attempts = RetriesMade + 1

C6_Witness ==
    /\ pc = "done"
    /\ req.Method = "GET"
    /\ policy.MaxRetries = 2
    /\ log = <<500, 404>>
    /\ IsStatusErr(result.err, 404)

\* C7: when Transport.Do fails, the attempt is retried if and only if the
\* method is idempotent and fewer than MaxRetries retries were made; otherwise
\* the call returns an Internal-kind error whose wrapped cause is the error
\* Transport.Do returned.
C7_TransportRetryRule ==
    DecidedFailure
    => /\ pc = "backoff" <=> /\ req.Method \in IdempotentMethods
                             /\ RetriesMade < policy.MaxRetries
       /\ pc = "done" => /\ result.returned
                         /\ result.err.kind = KindInternal
                         /\ result.err.src = doErr
                         /\ doErr \in {ErrorsNew(c) : c \in Causes}
       /\ pc = "backoff" => ~result.returned /\ attempts = RetriesMade + 1

C7_Witness ==
    /\ pc = "done"
    /\ req.Method = "DELETE"
    /\ policy.MaxRetries = 1
    /\ log = <<Fail, Fail>>
    /\ result.err = WithSource(KindInternal, ErrorsNew("connection refused"))
\* C8: a response with status 200..299 whose body is within the cap makes the
\* call return exactly that body with no error and without a further attempt,
\* and the call returns success in no other case.
C8_SuccessExactly ==
    /\ (DecidedResponse /\ Last \in 200..299)
       => /\ pc = "done"
          /\ result.returned
          /\ result.err = NoErr
          /\ result.body = resp.Body
    /\ (pc = "done" /\ result.err = NoErr)
       => /\ Len(log) > 0
          /\ Last \in 200..299
          /\ ~resp.readErr
          /\ ~Oversize(resp)

\* C9: a response whose body is longer than MaxBodyBytes makes the call return
\* the Internal-kind error wrapping ErrBodyTooLarge without a retry, whatever
\* the method and the retries left; a body of exactly MaxBodyBytes bytes is
\* not rejected.
C9_BodyTooLarge ==
    /\ (Decided /\ Last # Fail /\ ~resp.readErr /\ Oversize(resp))
       => /\ pc = "done"
          /\ result.err = WithSource(KindInternal, ErrBodyTooLarge)
    /\ (Decided /\ Last # Fail /\ ~resp.readErr
        /\ Len(resp.Body) = policy.MaxBodyBytes)
       => result.err # WithSource(KindInternal, ErrBodyTooLarge)

\* C10: over any sequence of Read calls on a body Transport.Do returned, the
\* caller never reads more than MaxBodyBytes+1 bytes, what it reads is the
\* start of what the server sent, and once the body reports its end the
\* caller has read min(server body length, MaxBodyBytes+1) bytes.
C10_BodyCap ==
    pc = "body"
    => /\ Len(rd.got) <= policy.MaxBodyBytes + 1
       /\ Len(rd.got) <= Len(rd.src)
       /\ rd.got = SubSeq(rd.src, 1, Len(rd.got))
       /\ rd.eof => Len(rd.got) = Min(Len(rd.src), policy.MaxBodyBytes + 1)

C10_Witness ==
    /\ pc = "body"
    /\ policy.MaxBodyBytes = 1
    /\ rd.src = Bytes(3)
    /\ rd.eof
    /\ rd.got = Bytes(2)

-----------------------------------------------------------------------------
\* C11: a Transport.Do call that derived its sub-context invokes the
\* sub-context's cancel function exactly once: at once when the dispatch
\* fails, otherwise when the response body is closed and not before; whatever
\* Read and Close calls the caller makes on the body, repeated Close calls
\* included, the cancel function is never invoked a second time.
C11_CancelExactlyOnce ==
    do.derived
    => /\ do.cancels <= 1
       /\ do.exit = "dispatch" => do.cancels = 1
       /\ do.exit = "response" => (do.cancels = 1 <=> rd.closed)

\* The context was cancelled while the call stood at p.
CancelledWhile(p) == ctx.done /\ ctx.at = p
\* The latest Transport.Do has returned an error and the next has not begun.
DoFailed == pc \in {"backoff", "attempt", "done"} /\ Len(log) > 0 /\ Last = Fail
\* The Transport.Do calls whose limiter wait was over when the context was
\* cancelled.
PastLimiter == ctx.calls + (IF ctx.at \in {"send", "flight"} THEN 1 ELSE 0)

\* C12: in a DoJSON call at most one response body is open at any time; the
\* body an attempt obtained is closed, and its sub-context released by one
\* cancel, before the backoff wait, the next attempt or the return, whatever
\* the attempt ends in.
C12_BodyClosedPerAttempt ==
    /\ do.open <= 1
    /\ pc # "read" => do.open = 0
    /\ (pc \in {"backoff", "attempt", "done"} /\ Len(log) > 0 /\ Last # Fail)
       => /\ do.exit = "response"
          /\ do.derived
          /\ do.cancels = 1

C12_Witness ==
    /\ pc = "read"
    /\ log = <<500, 500>>
    /\ do.open = 1
    /\ do.cancels = 0

\* C13: once the caller's context is cancelled no request is sent any more;
\* and a call whose context is cancelled while it waits for the limiter,
\* while its request is in flight or while it sleeps between attempts goes on
\* by itself to return an error.
C13_CancelUnblocks ==
    /\ [][ctx.done => ~(pc # "flight" /\ pc' = "flight")]_vars
    /\ ((CancelledWhile("attempt") /\ lim.on)
           \/ CancelledWhile("flight") \/ CancelledWhile("backoff"))
       ~> (pc = "done" /\ result.returned /\ IsErr(result.err))

C13_Witness ==
    /\ CancelledWhile("attempt")
    /\ lim.on
    /\ lim.tokens = 0
    /\ pc = "done"
    /\ result.err = WithSource(KindInternal, ErrorsNew("context canceled"))

\* C14: when the context is cancelled during a backoff wait, the call makes
\* one more Transport.Do call, which fails, and returns that failure: it
\* does not back off and call Transport.Do again.
C14_EndsAtNextDo ==
    CancelledWhile("backoff")
    => /\ Len(log) <= ctx.calls + 1
       /\ Len(log) = ctx.calls + 1
             => /\ Last = Fail
                /\ pc = "done"
                /\ result.err = WithSource(KindInternal, ErrorsNew("context canceled"))

\* C15: with a rate limiter, a Transport.Do call whose context is cancelled
\* before its Wait got a token returns the context's error from Wait: it
\* derives no sub-context, does not call the HTTP client and returns no
\* response.
C15_WaitCancelled ==
    (/\ lim.on
     /\ ctx.done
     /\ Len(log) > PastLimiter
     /\ pc \in {"backoff", "attempt", "done"})
    => /\ Last = Fail
       /\ do.exit = "wait"
       /\ doErr = ErrorsNew("context canceled")
       /\ ~do.derived
       /\ ~do.dispatched
       /\ do.cancels = 0
       /\ resp = NoResp

C15_Witness ==
    /\ lim.on
    /\ lim.tokens = 0
    /\ CancelledWhile("attempt")
    /\ ctx.calls = 1
    /\ Len(log) = 2
    /\ do.exit = "wait"
    /\ pc = "done"

\* C16: every DoJSON call that was started returns.
C16_CallReturns == (pc # "idle") ~> (pc = "done" /\ result.returned)

C16_Witness ==
    /\ pc = "done"
    /\ result.returned
    /\ policy.MaxRetries = 2
    /\ Len(log) = 3
    /\ lim.refilled >= 2

\* C17: a request in flight does not stay in flight; when the deadline of
\* its sub-context passes before the server answers, Transport.Do returns
\* the deadline error and no response, and has invoked the sub-context's
\* cancel function.
C17_DeadlineEndsDo ==
    /\ [](DoFailed /\ doErr = DeadlineExceeded
            => /\ do.exit = "dispatch"
               /\ resp = NoResp
               /\ do.derived
               /\ do.cancels = 1
               /\ do.open = 0)
    /\ (pc = "flight") ~> (pc # "flight")

C17_Witness ==
    /\ pc = "done"
    /\ doErr = DeadlineExceeded
    /\ result.err = WithSource(KindInternal, DeadlineExceeded)
    /\ do.cancels = 1

\* The Transport.Do calls that have got past the limiter, and the requests
\* sent, over all goroutines.
RECURSIVE Total(_, _)
Total(f(_), S) ==
    IF S = {} THEN 0
    ELSE LET c == CHOOSE x \in S : TRUE IN f(c) + Total(f, S \ {c})
PastWait(c) == callers[c].calls - (IF callers[c].pc = "wait" THEN 1 ELSE 0)
SentBy(c) == callers[c].sent

\* C18: with a rate limiter, under every interleaving of the goroutines, a
\* request is sent only by a Transport.Do call that has taken a token, every
\* call takes its own token, the bucket never goes below zero (a caller that
\* finds it empty cannot proceed), and the number of requests sent never
\* exceeds the burst plus the tokens refilled so far.
C18_TokenPerRequest ==
    lim.on
    => /\ \A c \in Callers : callers[c].pc \in {"send", "flight"} => callers[c].token
       /\ Total(PastWait, Callers) = lim.burst + lim.refilled - lim.tokens
       /\ lim.tokens >= 0
       /\ lim.tokens = 0
             => \A c \in Callers : callers[c].pc = "wait" => ~ENABLED Acquire(c)
       /\ Total(SentBy, Callers) <= lim.burst + lim.refilled

C18_Witness ==
    /\ lim.on
    /\ lim.burst = 1
    /\ lim.tokens = 0
    /\ lim.refilled = 2
    /\ Total(SentBy, Callers) = 3
    /\ callers[1].pc = "wait"
    /\ callers[1].calls = 2

\* min(b * 2^(k-1), m) for b > 0, m > 0 and k >= 1.
RECURSIVE MinDoubled(_, _, _)
MinDoubled(b, m, k) ==
    IF b >= m THEN m
    ELSE IF k = 1 THEN b
    ELSE MinDoubled(2 * b, m, k - 1)

\* C19: for BaseDelay > 0, MaxDelay > 0 and retry number k >= 1 the delay
\* sleepBackoff waits for is min(BaseDelay * 2^(k-1), MaxDelay).
C19_DelayFormula ==
    (/\ bk.pc \in {"timer", "returned"}
     /\ bk.p.BaseDelay > 0
     /\ bk.p.MaxDelay > 0
     /\ bk.attempt >= 1)
    => bk.delay = MinDoubled(bk.p.BaseDelay, bk.p.MaxDelay, bk.attempt)

\* C20: for every RetryPolicy and every attempt number the delay
\* sleepBackoff computes is not negative, and is not above MaxDelay when a
\* MaxDelay is set: no doubling overflows the duration.
C20_NoOverflow ==
    bk.pc \in {"timer", "returned"}
    => /\ bk.delay >= 0
       /\ bk.p.MaxDelay > 0 => bk.delay <= bk.p.MaxDelay

\* C21: every error a DoJSON call returns, whichever step failed (request
\* construction, limiter wait, dispatch, body read, body too large, non-2xx
\* status), is a tagged Error carrying one of the kinds of the taxonomy.
C21_ErrorHasKind ==
    (result.returned /\ IsErr(result.err)) => result.err.kind \in Kinds

\* C22: the message of a Status error DoJSON returns is a prefix of the
\* response body of at most MaxRawBodyBytes (4096) bytes: the whole body when
\* the body has at most 4096 bytes, its first 4096 bytes otherwise.
C22_PreviewIsPrefix ==
    (pc = "done" /\ result.returned /\ result.err.kind = KindStatus)
    => /\ result.err.src.type = "Status"
       /\ LET m == result.err.src.Message
              b == resp.Body
          IN  /\ Len(m) <= MaxRawBodyBytes
              /\ m = SubSeq(b, 1, Len(m))
              /\ Len(b) <= MaxRawBodyBytes => m = b
              /\ Len(b) > MaxRawBodyBytes => m = SubSeq(b, 1, MaxRawBodyBytes)

\* C23: Classify maps every status to one outcome, whatever the body: no
\* error for 200..299, the rate-limited sentinel for 429, unauthorized for
\* 401 and 403, bad-request for the other statuses in 400..499, server-error
\* from 500 on, unknown for every other status; the error returned matches
\* exactly one sentinel under errors.Is.
C23_ClassifyByStatus ==
    (fn.name = "Classify" /\ fn.pc = "returned")
    => LET st == fn.status
           e == fn.out
       IN  /\ st \in 200..299 <=> e = NoCause
           /\ st = 429 => Is(e, ErrRateLimited)
           /\ st \in {401, 403} => Is(e, ErrUnauthorized)
           /\ st \in (400..499) \ {401, 403, 429} => Is(e, ErrBadRequest)
           /\ st >= 500 => Is(e, ErrServer)
           /\ (st < 200 \/ st \in 300..399) => Is(e, ErrUnknown)
           /\ e # NoCause => Cardinality({t \in Sentinels : Is(e, t)}) = 1
           /\ \A b \in ClassifyBodies :
                 LET o == Classify(st, b)
                 IN  \A t \in Sentinels \cup {NoCause} : Is(o, t) <=> Is(e, t)

C23_Witness ==
    /\ fn.name = "Classify"
    /\ fn.pc = "returned"
    /\ fn.status = 403
    /\ fn.body.message = JSONString("m")
    /\ Is(fn.out, ErrUnauthorized)
    /\ fn.out.Message = "m"

\* t is s without its leading and trailing whitespace.
Trimmed(t, s) ==
    \E i \in 1..(Len(s) + 1), j \in 0..Len(s) :
       /\ t = SubSeq(s, i, j)
       /\ \A k \in 1..(i - 1) : At(s, k) \in Whitespace
       /\ \A k \in (j + 1)..Len(s) : At(s, k) \in Whitespace
       /\ i <= j => (At(s, i) \notin Whitespace /\ At(s, j) \notin Whitespace)

Substrings(s) == {SubSeq(s, i, j) : i \in 1..(Len(s) + 1), j \in 0..Len(s)}

C25_NeverLonger ==
    (fn.name = "Redact" /\ fn.pc = "returned") => Len(fn.out) <= Len(fn.s)

\* C25, amended: the length of Redact(s) is at most the length of s when s
\* has 3 characters or more or nothing but whitespace, and Redact(s) is the
\* 3 characters "***" for the other strings, which have 1 or 2 characters.
C25_NeverLongerFrom3 ==
    (fn.name = "Redact" /\ fn.pc = "returned")
    => IF Len(fn.s) >= 3 \/ Trimmed("", fn.s)
       THEN Len(fn.out) <= Len(fn.s)
       ELSE Len(fn.s) \in 1..2 /\ fn.out = "***"

C25_Witness ==
    /\ fn.name = "Redact"
    /\ fn.pc = "returned"
    /\ fn.s = "a"
    /\ fn.out = "***"

\* A RedactHeaders call has returned.
Redacted == fn.name = "RedactHeaders" /\ fn.pc # "called"

\* C26: RedactHeaders leaves its input as it was, same keys and same values
\* in the same order, and returns a copy that shares no value list with it: a
\* later change of the output does not show in the input, nor one of the
\* input in the output; a nil input gives a nil output.
C26_InputUntouched ==
    Redacted
    => /\ fn.out.nil <=> fn.h.nil
       /\ {fn.h.m[k] : k \in Keys(fn.h)} \cap {fn.out.m[k] : k \in Keys(fn.out)} = {}
       /\ fn.pc \in {"returned", "outChanged"} => Content(fn.h, fn.heap) = fn.in0
       /\ fn.pc \in {"returned", "inChanged"} => Content(fn.out, fn.heap) = fn.out0

C26_Witness ==
    /\ Redacted
    /\ fn.pc = "outChanged"
    /\ fn.in0 = [k \in {"User-Agent"} |-> <<"ua">>]
    /\ fn.out0 = fn.in0
    /\ Content(fn.out, fn.heap) = [k \in {"User-Agent"} |-> <<"changed">>]
    /\ Content(fn.h, fn.heap) = fn.in0

\* The name of a header is sensitive: it is one of the listed names, or it
\* holds one of the words, in any case of the letters.
SensitiveName(k) ==
    \/ \E n \in SensitiveNames : ToLower(n) = ToLower(k)
    \/ \E w \in SensitiveWords : Contains(ToLower(k), w)

\* The value lists the output holds for the header name of key k.
OutputFor(k) ==
    {fn.out0[ck] : ck \in {x \in DOMAIN fn.out0 : ToLower(x) = ToLower(k)}}

\* C27: for every header of the input with a sensitive name, the output
\* holds "***" in the place of every one of its values, as many as the header
\* has, whatever the values are (a bearer token included).
C27_SensitiveByName ==
    Redacted
    => \A k \in DOMAIN fn.in0 :
          SensitiveName(k)
          => OutputFor(k) = {[i \in 1..Len(fn.in0[k]) |-> "***"]}

\* C28: for every header of the input whose name is not sensitive, the
\* output holds for each value: "Bearer ***" when the value starts with
\* "Bearer " in any case of the letters, otherwise its first 3 and last 3
\* characters around "***" when it has 16 characters or more, otherwise the
\* value itself.
C28_ValueHeuristic ==
    Redacted
    => \A k \in DOMAIN fn.in0 :
          ~SensitiveName(k)
          => OutputFor(k) =
               {[i \in 1..Len(fn.in0[k]) |->
                    LET v == fn.in0[k][i]
                    IN  IF HasPrefix(ToLower(v), "bearer ") THEN "Bearer ***"
                        ELSE IF Len(v) >= 16
                        THEN SubSeq(v, 1, 3) \o "***" \o SubSeq(v, Len(v) - 2, Len(v))
                        ELSE v]}

\* A helper of the error taxonomy has returned; the detail record of the
\* given type that errors.As finds in what it returned.
Helped(helper) == fn.name = "helper" /\ fn.pc = "returned" /\ fn.args.helper = helper
Detail(type) == errorsAs(fn.out, type)

\* C29: each construction helper returns a top-level Error of the kind that
\* goes with the helper, and the detail record found in it by its type holds
\* exactly the values the helper was given.
C29_HelperKindAndDetail ==
    /\ (fn.name = "helper" /\ fn.pc = "returned")
       => /\ errorsAs(fn.out, "Error") = [ok |-> TRUE, val |-> fn.out]
          /\ Cardinality({t \in {"Status", "Validation", "Synchronization",
                                  "MissingContractConfig", "Geoblock"} :
                             Detail(t).ok}) = 1
    /\ Helped("StatusErr")
       => /\ fn.out.kind = "status"
          /\ AsStatus(fn.out) = Detail("Status")
          /\ Detail("Status").ok
          /\ Detail("Status").val =
                [type |-> "Status", StatusCode |-> fn.args.statusCode,
                 Method |-> fn.args.method, Path |-> fn.args.path,
                 Message |-> fn.args.message]
    /\ Helped("ValidationErr")
       => /\ fn.out.kind = "validation"
          /\ AsValidation(fn.out) = Detail("Validation")
          /\ Detail("Validation").ok
          /\ Detail("Validation").val = [type |-> "Validation", Reason |-> fn.args.reason]
    /\ Helped("SyncErr")
       => /\ fn.out.kind = "synchronization"
          /\ Detail("Synchronization").ok
    /\ Helped("MissingContractConfigErr")
       => /\ fn.out.kind = "internal"
          /\ Detail("MissingContractConfig").ok
          /\ Detail("MissingContractConfig").val =
                [type |-> "MissingContractConfig", ChainID |-> fn.args.chainID,
                 NegRisk |-> fn.args.negRisk]
    /\ Helped("GeoblockErr")
       => /\ fn.out.kind = "geoblock"
          /\ Detail("Geoblock").ok
          /\ Detail("Geoblock").val =
                [type |-> "Geoblock", IP |-> fn.args.ip, Country |-> fn.args.country,
                 Region |-> fn.args.region]

C29_Witness ==
    /\ Helped("GeoblockErr")
    /\ fn.args.ip = ""
    /\ fn.args.country = "US"
    /\ fn.args.region = "NY"
    /\ fn.out.kind = "geoblock"
    /\ Detail("Geoblock").val.Country = "US"

\* The base URL given to NewPublicClient, by its parts: nothing but
\* whitespace, without a scheme or without a host, with a scheme other than
\* https, and well-formed.
BlankURL == fn.parts.scheme = "" /\ fn.parts.authority = "" /\ fn.parts.path = ""
LacksSchemeOrHost == fn.parts.scheme \in {"", ":"} \/ fn.parts.authority \in {"", "//"}
NotHTTPS == fn.parts.scheme \notin {"https:", "HTTPS:"}
WellFormed ==
    /\ fn.parts.scheme \in {"https:", "http:", "HTTPS:"}
    /\ fn.parts.authority = "//example.com"

\* C30: NewPublicClient called with a base URL that is empty or whitespace
\* only, that lacks the scheme or the host, or that is not https while https
\* is required, returns an error of kind Validation and no client, and no
\* request is made, at the construction or afterwards; every error it returns
\* is of that kind and comes without a client, and a well-formed URL gives a
\* client.
C30_EagerValidation ==
    (fn.name = "NewPublicClient" /\ fn.pc # "called")
    => /\ (BlankURL \/ LacksSchemeOrHost \/ (fn.requireHTTPS /\ NotHTTPS))
             => IsErr(fn.err)
       /\ IsErr(fn.err)
             => /\ errorsAs(fn.err, "Error").val.kind = "validation"
                /\ fn.client.nil
                /\ fn.requests = 0
       /\ fn.pc = "returned" => fn.requests = 0
       /\ (WellFormed /\ ~(fn.requireHTTPS /\ NotHTTPS))
             => ~IsErr(fn.err) /\ ~fn.client.nil

C30_Witness ==
    /\ fn.name = "NewPublicClient"
    /\ fn.pc = "returned"
    /\ fn.baseURL = " http://example.com/base "
    /\ fn.requireHTTPS
    /\ fn.err = ValidationErr("baseURL must use https scheme")
    /\ fn.client.nil

\* C31: the text String() returns for an APICreds value whose Key, Secret and
\* Passphrase are all non-empty contains none of the three raw values in
\* full.
C31_NoRawValue ==
    (/\ fn.name = "APICreds.String"
     /\ fn.pc = "returned"
     /\ fn.c.Key # "" /\ fn.c.Secret # "" /\ fn.c.Passphrase # "")
    => /\ ~Contains(fn.out, fn.c.Key)
       /\ ~Contains(fn.out, fn.c.Secret)
       /\ ~Contains(fn.out, fn.c.Passphrase)

\* The keys under which a header holds a User-Agent.
UserAgentKeys(h) == {k \in DOMAIN h : ToLower(k) = "user-agent"}

\* C32: after any number of Transport.Do invocations with one request, a
\* User-Agent the caller's request came with is as the caller supplied it;
\* the policy's User-Agent is in the header only if the caller's request had
\* none, and is there then unless it is empty; with an empty policy
\* User-Agent the header is the caller's; no other header is touched.
C32_UserAgentOnlyIfUnset ==
    (fn.name = "Transport.Do" /\ fn.attempts > 0)
    => /\ \A k \in DOMAIN fn.header0 :
             k \in DOMAIN fn.header /\ fn.header[k] = fn.header0[k]
       /\ UserAgentKeys(fn.header0) # {} => fn.header = fn.header0
       /\ fn.userAgent = "" => fn.header = fn.header0
       /\ (UserAgentKeys(fn.header0) = {} /\ fn.userAgent # "")
             => fn.header = ("User-Agent" :> <<fn.userAgent>>) @@ fn.header0

\* C33: in every DoJSON call, whatever mix of transport failures and
\* retryable statuses its attempts end in, Transport.Do is invoked at most
\* MaxRetries+1 times, and once when MaxRetries <= 0; the attempt counter is
\* the number of retries made so far, of both kinds together.
C33_SharedCounter ==
    pc # "idle"
    => /\ Len(log) <= (IF policy.MaxRetries <= 0 THEN 0 ELSE policy.MaxRetries) + 1
       /\ pc = "done" => Len(log) >= 1
       /\ attempts = Len(log) - (IF pc \in {"done", "read"} THEN 1 ELSE 0)

C33_Witness ==
    /\ pc = "done"
    /\ policy.MaxRetries = 2
    /\ log = <<500, Fail, 429>>
    /\ attempts = 2

\* C34: for every MaxBodyBytes, zero and negative values included, a DoJSON
\* call that returns success returns the complete body of its final response,
\* never a shorter prefix of it.
C34_SuccessIsComplete ==
    (pc = "done" /\ result.returned /\ result.err = NoErr)
    => result.body = resp.Body

\* What a reader gets from the final response: its body cut at
\* MaxBodyBytes+1 bytes, and that cut at the length of the preview.
FinalRead == SubSeq(resp.Body, 1, Min(Len(resp.Body), Max(policy.MaxBodyBytes + 1, 0)))
FinalPreview == SubSeq(FinalRead, 1, Min(Len(FinalRead), MaxRawBodyBytes))

\* C35: what a DoJSON call returns comes from its final attempt, whatever
\* the attempts before it ended in: a returned body is the body read from the
\* final response; a Status error carries the final response's status code
\* and the preview of its body; an Internal error wraps the final attempt's
\* transport failure, or reports the final response's read failure or
\* oversize body.
C35_FinalAttemptOnly ==
    (pc = "done" /\ Len(log) > 0)
    => /\ result.returned
       /\ result.err = NoErr
             => /\ Last # Fail /\ Last = resp.StatusCode
                /\ result.body = FinalRead
       /\ result.err.kind = KindStatus
             => /\ Last # Fail /\ Last = resp.StatusCode
                /\ result.err.src.type = "Status"
                /\ result.err.src.StatusCode = Last
                /\ result.err.src.Message = FinalPreview
       /\ result.err.kind = KindInternal
             => IF Last = Fail
                THEN result.err.src = doErr /\ doErr # NoCause
                ELSE /\ Last = resp.StatusCode
                     /\ \/ resp.readErr
                        \/ result.err.src = ErrBodyTooLarge /\ Oversize(resp)
       /\ result.err.kind \in {"", KindStatus, KindInternal}

C35_Witness ==
    /\ pc = "done"
    /\ log = <<500, Fail, 404>>
    /\ resp.Body = Bytes(1)
    /\ result.err = StatusErr(404, req.Method, req.Path, Bytes(1))

\* C36: in a DoJSON call the waits lie between consecutive attempts: none
\* comes before the first attempt and none after the final one, there is one
\* wait less than there are attempts, and the k-th wait comes after the k-th
\* attempt and is computed with attempt index k.
C36_WaitsBetweenAttempts ==
    /\ Len(log) = 0 => bk.waits = <<>>
    /\ pc \in {"read", "backoff", "done"} => Len(bk.waits) = Len(log) - 1
    /\ pc = "attempt" => Len(bk.waits) = Len(log)
    /\ \A k \in 1..Len(bk.waits) :
          /\ bk.waits[k].after = k
          /\ bk.waits[k].attempt = k
          /\ bk.waits[k].delay = backoffDelay(bk.p, k)

C36_Witness ==
    /\ pc = "done"
    /\ log = <<Fail, 500, 200>>
    /\ Len(bk.waits) = 2
    /\ bk.p = [BaseDelay |-> 1, MaxDelay |-> MaxMaxDelay]
    /\ bk.waits[1].delay = 1
    /\ bk.waits[2].delay = 2

\* C37: under every interleaving of the goroutines' DoJSON calls on one
\* Transport, a call's attempt counter counts the retries of that call only,
\* every payload it sends is its own body argument, a call whose method is
\* idempotent and whose attempts all end in a transport failure or status 500
\* makes MaxRetries+1 attempts whatever the other calls do, and the
\* Transport's policy stays as NewTransport received it.
C37_IndependentCalls ==
    (fn.name = "NewTransport")
    => /\ policy = fn.p
       /\ \A c \in Callers :
             /\ callers[c].attempts
                  = Len(callers[c].log) - (IF callers[c].pc = "done" THEN 1 ELSE 0)
             /\ \A i \in 1..Len(callers[c].sent) : callers[c].sent[i] = callers[c].arg.bytes
             /\ (/\ callers[c].pc = "done"
                 /\ callers[c].req.Method = "GET"
                 /\ \A i \in 1..Len(callers[c].log) : callers[c].log[i] \in {Fail, 500})
                => Len(callers[c].log) = policy.MaxRetries + 1

C37_Witness ==
    /\ fn.name = "NewTransport"
    /\ policy.MaxRetries = 2
    /\ callers[1].pc = "done"
    /\ callers[1].log = <<Fail, 500, Fail>>
    /\ callers[1].sent = <<Bytes(1)>>
    /\ callers[2].pc = "done"
    /\ callers[2].log = <<500, 500, 500>>
    /\ callers[2].sent = <<Bytes(2), Bytes(2), Bytes(2)>>

\* The kinds from the i-th on, outermost first, each followed by ": ", ahead
\* of the text of the innermost cause; without a cause, the kinds alone.
RECURSIVE KindsThen(_, _, _)
KindsThen(kinds, i, cause) ==
    IF i > Len(kinds) THEN cause.text
    ELSE IF i = Len(kinds) /\ cause.v = NoCause THEN kinds[i]
    ELSE kinds[i] \o ": " \o KindsThen(kinds, i + 1, cause)

\* C38: for a chain of Errors nested to any depth around a cause, the
\* extraction of the top-level Error gives the outermost Error with its
\* kind; AsStatus and AsValidation give the Status or Validation detail at
\* the bottom of the chain, and nothing when the cause is of another type;
\* Error() is the kind, ": " and the message of what the Error wraps, and the
\* kind alone for an Error without a cause.
C38_ChainExtraction ==
    (fn.name = "chain" /\ fn.pc = "inspected")
    => /\ fn.out.top = [ok |-> TRUE, val |-> fn.err]
       /\ fn.out.top.val.kind = fn.kinds[1]
       /\ fn.out.status =
             (IF fn.cause.v # NoCause /\ fn.cause.v.type = "Status"
              THEN [ok |-> TRUE, val |-> fn.cause.v]
              ELSE [ok |-> FALSE, val |-> NoCause])
       /\ fn.out.validation =
             (IF fn.cause.v # NoCause /\ fn.cause.v.type = "Validation"
              THEN [ok |-> TRUE, val |-> fn.cause.v]
              ELSE [ok |-> FALSE, val |-> NoCause])
       /\ fn.out.msg = KindsThen(fn.kinds, 1, fn.cause)

C38_Witness ==
    /\ fn.name = "chain"
    /\ fn.pc = "inspected"
    /\ fn.kinds = <<KindInternal, KindValidation, KindStatus>>
    /\ fn.out.status.ok
    /\ fn.out.status.val.StatusCode = 404
    /\ fn.out.msg =
          "internal: validation: status: error(404) making GET call to /x with not found"

\* C39: for every status outside 200..299 the error Classify returns has the
\* status and the body it was given; its code is the body's "code" when that
\* is a string and empty otherwise; its message is the body's "message" when
\* that is a non-empty string, otherwise the body's "error" when that is a
\* string, otherwise empty; for a body that is not a JSON object both are
\* empty.
C39_ClassifyFields ==
    (fn.name = "Classify" /\ fn.pc = "returned" /\ fn.status \notin 200..299)
    => LET b == fn.body
           e == fn.out
       IN  /\ e # NoCause
           /\ e.Status = fn.status
           /\ e.RawBody = b
           /\ e.Code = (IF b.code.type = "string" THEN b.code.val ELSE "")
           /\ (b.message.type = "string" /\ b.message.val # "")
                 => e.Message = b.message.val
           /\ (b.message.type # "string" \/ b.message.val = "")
                 => e.Message = (IF b.error.type = "string" THEN b.error.val ELSE "")
           /\ ~b.object => e.Code = "" /\ e.Message = ""

C39_Witness ==
    /\ fn.name = "Classify"
    /\ fn.pc = "returned"
    /\ fn.status = 502
    /\ fn.body.message = JSONString("")
    /\ fn.body.error = JSONString("e")
    /\ fn.body.code = JSONNumber
    /\ fn.out.Message = "e"
    /\ fn.out.Code = ""

\* The number of values the input holds under key k, and the keys of the
\* input that name the same header as k.
ValuesIn(k) == Len(fn.in0[k])
SameName(k) == {x \in DOMAIN fn.in0 : ToLower(x) = ToLower(k)}

\* C40: the output of RedactHeaders holds, under the header name of every
\* key of the input, as many values as the input holds under all the keys
\* of that name together, and it is the same whatever order the keys are
\* visited in.
C40_NoValueDropped ==
    (fn.name = "RedactHeaders" /\ fn.pc = "returned" /\ ~fn.h.nil)
    => /\ \A k \in DOMAIN fn.in0 :
             \E ck \in DOMAIN fn.out0 :
                /\ ToLower(ck) = ToLower(k)
                /\ Len(fn.out0[ck]) = Total(ValuesIn, SameName(k))
       /\ \A order \in Orders(Keys(fn.h)) :
             LET r == RedactHeaders(fn.h, order, fn.heap)
             IN  Content(r.out, r.heap) = fn.out0

====
